---- MODULE Spec2Model ----
(***************************************************************************)
(* Task tracker server: the JWT auth gate (middleware/auth.js), the token  *)
(* utilities (utils/jwt.js), the auth routes (routes/auth.js), the User    *)
(* and Task models and the task controller, as a state machine over the    *)
(* document store.  Every await of a handler is a step boundary: the code  *)
(* between two awaits is one action.                                       *)
(***************************************************************************)
EXTENDS Integers, Sequences, FiniteSets, TLC

(***************************************************************************)
(* Bounds of the model                                                     *)
(***************************************************************************)
\* users that may register
MaxUsers == 2
\* tasks that may ever be created
MaxTasks == 2
\* requests that may be in flight at once
MaxInFlight == 1
\* requests that may be in flight at once where requests race
MaxRacers == 2

(***************************************************************************)
(* Program constants                                                       *)
(***************************************************************************)
\* expiresIn: '7d', in clock units of one day
SevenDays == 7
\* 'Bearer '.length, the argument of authHeader.substring(7)
BearerLen == 7
\* password.length < 6
MinPasswordLen == 6
\* title.length > 40
MaxTitleLen == 40
\* description.length > 500
MaxDescriptionLen == 500
\* name: minlength 2, maxlength 50
MinNameLen == 2
MaxNameLen == 50

(***************************************************************************)
(* Strings are sequences of one-character strings.                         *)
(***************************************************************************)
IsSpace(c) == c = " "

\* the characters of s from its first character that is not white space
TrimLeft(s) ==
  LET kept == {i \in 1..Len(s) : ~IsSpace(s[i])}
  IN  IF kept = {} THEN <<>>
      ELSE SubSeq(s, CHOOSE i \in kept : \A j \in kept : i <= j, Len(s))

\* the characters of s up to its last character that is not white space
TrimRight(s) ==
  LET kept == {i \in 1..Len(s) : ~IsSpace(s[i])}
  IN  IF kept = {} THEN <<>>
      ELSE SubSeq(s, 1, CHOOSE i \in kept : \A j \in kept : i >= j)

\* String.prototype.trim
Trim(s) == TrimRight(TrimLeft(s))

\* String.prototype.startsWith
StartsWith(s, p) == Len(s) >= Len(p) /\ SubSeq(s, 1, Len(p)) = p

\* String.prototype.substring(n)
Substring(s, n) == IF n >= Len(s) THEN <<>> ELSE SubSeq(s, n + 1, Len(s))

\* String.prototype.toLowerCase on the letters the model uses
LowerChar(c) == IF c = "A" THEN "a" ELSE IF c = "B" THEN "b" ELSE c
ToLowerCase(s) == [i \in 1..Len(s) |-> LowerChar(s[i])]

\* n copies of the character c
Repeat(c, n) == [i \in 1..n |-> c]

\* decimal numerals as one symbol
NumStr(n) == ToString(n)
MaxNum == 99
IsNumStr(c) == \E n \in 0..MaxNum : NumStr(n) = c
ParseNum(c) == CHOOSE n \in 0..MaxNum : NumStr(n) = c

(***************************************************************************)
(* JSON values of a request body: undefined, a string, a number or a       *)
(* boolean.  v holds the text of the value.                                *)
(***************************************************************************)
Undef == [k |-> "undef", v |-> <<>>]
JStr(s) == [k |-> "str", v |-> s]
JNum(s) == [k |-> "num", v |-> s]
JBool(b) == [k |-> "bool", v |-> IF b THEN <<"true">> ELSE <<"false">>]

\* JavaScript truthiness: !x is ~Truthy(x)
Truthy(j) ==
  CASE j.k = "undef" -> FALSE
    [] j.k = "str" -> j.v # <<>>
    [] j.k = "num" -> j.v # <<"0">>
    [] j.k = "bool" -> j.v = <<"true">>

\* x.length: defined for strings only; a comparison with undefined is false
HasLength(j) == j.k = "str"
LengthOf(j) == Len(j.v)

\* Mongoose's cast of a value to a String path
CastString(j) == j.v

(***************************************************************************)
(* ObjectIds.  Users get 1..MaxUsers, tasks TaskIdBase+1.. ; the text of   *)
(* an id in a URL or a token is the symbol "o" followed by its number.     *)
(***************************************************************************)
TaskIdBase == 10
\* the id of a user that is not in this store (a token of an earlier database)
GhostUserId == 9
OidStr(n) == <<"o", NumStr(n)>>
\* mongoose.Types.ObjectId.isValid
ObjectIdIsValid(s) == Len(s) = 2 /\ s[1] = "o" /\ IsNumStr(s[2])
ParseOid(s) == ParseNum(s[2])

(***************************************************************************)
(* utils/jwt.js over jsonwebtoken: a token is payload . signature, the     *)
(* payload being userId, iat and exp, the signature a keyed tag of it.     *)
(***************************************************************************)
\* process.env.JWT_SECRET
JwtSecret == "K"
\* a key that is not the process secret
OtherKey == "X"

HmacTag(payload, key) == <<key>> \o payload

\* the token of a payload under a key
JwtEncode(userId, iat, exp, key) ==
  LET payload == <<NumStr(userId), NumStr(iat), NumStr(exp)>>
  IN  payload \o <<".">> \o HmacTag(payload, key)

\* jwt.sign({ userId }, key, { expiresIn })
JwtSign(userId, key, expiresIn, t) == JwtEncode(userId, t, t + expiresIn, key)

generateToken(userId, t) == JwtSign(userId, JwtSecret, SevenDays, t)

NullDecoded == [ok |-> FALSE, userId |-> 0, iat |-> 0, exp |-> 0]

\* how a call completes: the error it throws ("" for none) and what it returns
Return(v) == [thrown |-> "", value |-> v]
Throw(e) == [thrown |-> e, value |-> NullDecoded]

JwtWellFormed(token) ==
  /\ Len(token) = 8
  /\ token[4] = "."
  /\ \A i \in 1..3 : IsNumStr(token[i])

JwtSignatureOk(token, key) ==
  SubSeq(token, 5, 8) = HmacTag(SubSeq(token, 1, 3), key)

JwtDecode(token) ==
  [ok |-> TRUE, userId |-> ParseNum(token[1]), iat |-> ParseNum(token[2]),
   exp |-> ParseNum(token[3])]

\* jwt.verify(token, key)
JwtVerify(token, key, t) ==
  IF ~JwtWellFormed(token) THEN Throw("jwt malformed")
  ELSE IF ~JwtSignatureOk(token, key) THEN Throw("invalid signature")
  ELSE IF t >= ParseNum(token[3]) THEN Throw("jwt expired")
  ELSE Return(JwtDecode(token))

\* verifyToken without its catch
verifyTokenNoCatch(token, t) == JwtVerify(token, JwtSecret, t)

\* verifyToken: try { return jwt.verify(...) } catch { return null }
verifyToken(token, t) ==
  LET r == JwtVerify(token, JwtSecret, t)
  IN  IF r.thrown # "" THEN Return(NullDecoded) ELSE r

(***************************************************************************)
(* bcryptjs as used by models/User.js                                      *)
(***************************************************************************)
Salts == {"s"}
BcryptHash(plain, salt) == <<"$2a$", salt>> \o plain
\* bcrypt.compare(candidate, hash): rejects when candidate is not a string
BcryptCompareThrows(candidate) == candidate.k # "str"
BcryptCompare(candidate, hash) ==
  /\ Len(hash) >= 2
  /\ BcryptHash(candidate.v, hash[2]) = hash

(***************************************************************************)
(* Responses.  body is the JSON object sent: message/error text, token,    *)
(* user, one task, a task array, the debug fields.                         *)
(***************************************************************************)
EmptyBody ==
  [message |-> "", error |-> "", token |-> <<>>, user |-> <<>>,
   task |-> <<>>, isArray |-> FALSE, tasks |-> <<>>, debug |-> <<>>]

NoResponse == [status |-> 0, body |-> EmptyBody]
MessageResponse(status, m) == [status |-> status, body |-> [EmptyBody EXCEPT !.message = m]]
ErrorResponse(status, e) == [status |-> status, body |-> [EmptyBody EXCEPT !.error = e]]

\* the document as res.json serialises it
TaskJSON(t) ==
  [_id |-> OidStr(t._id), title |-> t.title, description |-> t.description,
   completed |-> t.completed, userId |-> OidStr(t.userId),
   createdAt |-> t.createdAt, updatedAt |-> t.updatedAt]

(***************************************************************************)
(* The clock.  Requests arrive at the instants below; the token lifetime   *)
(* lies between the second and the third.                                  *)
(***************************************************************************)
\* instants the clock may show
MaxInstant == 3
Instants == <<0, 1, SevenDays, SevenDays + 1, 2 * SevenDays>>

(***************************************************************************)
(* State                                                                   *)
(***************************************************************************)
VARIABLES
  users,      \* the users collection: set of user documents
  tasks,      \* the tasks collection: set of task documents
  userIds,    \* number of User documents constructed so far
  taskIds,    \* number of Task documents constructed so far
  clock,      \* index into Instants of the current time
  slots,      \* requests in flight, each at one of its awaits
  sent,       \* the request the last step answered and its response, if it answered one
  deleted,    \* ids of the task documents removed from the collection so far
  created,    \* for each task a create stored: the request that made it, and whether it was written since
  boot,       \* the server process and the migration script: where each is in its run
  client,     \* the browser: the token kept, the state of the hooks and components, requests awaiting
  call        \* the last call of a token utility made on its own: arguments and completion

vars == <<users, tasks, userIds, taskIds, clock, slots, sent, deleted, created, boot, client, call>>

now == Instants[clock]

Slots == DOMAIN slots

EmptyReqBody ==
  [title |-> Undef, description |-> Undef, completed |-> Undef, userId |-> Undef,
   name |-> Undef, email |-> Undef, password |-> Undef]

NoHeader == [present |-> FALSE, value |-> <<>>]
HeaderOf(s) == [present |-> TRUE, value |-> s]

\* a request: what the client sent, and what the server attached to it so far
NewRequest(route, header, id, body) ==
  [route |-> route, header |-> header, id |-> id, body |-> body, pc |-> "arrived",
   decoded |-> NullDecoded, userId |-> 0, user |-> <<>>, newId |-> 0,
   trace |-> <<>>]

Idle == [NewRequest("none", NoHeader, <<>>, EmptyReqBody) EXCEPT !.pc = "idle"]

Ran(req, step) == \E i \in 1..Len(req.trace) : req.trace[i] = step

ProtectedRoutes == {"me", "list", "debug", "create", "get", "update", "delete"}
TaskRoutes == ProtectedRoutes \ {"me"}

(***************************************************************************)
(* middleware/auth.js: requireAuth                                         *)
(***************************************************************************)
Bearer == <<"B", "e", "a", "r", "e", "r", " ">>

NullToken == [isNull |-> TRUE, s |-> <<>>]

\* authHeader && authHeader.startsWith('Bearer ') ? authHeader.substring(7) : null
ExtractToken(header) ==
  IF header.present /\ header.value # <<>> /\ StartsWith(header.value, Bearer)
  THEN [isNull |-> FALSE, s |-> Substring(header.value, BearerLen)]
  ELSE NullToken

\* a check for null only
TokenMissingNullOnly(token) == token.isNull

\* !token
TokenMissing(token) == token.isNull \/ token.s = <<>>

\* requireAuth decoding the token without verifying it
requireAuthSyncUnverified(req, t) ==
  LET token == ExtractToken(req.header)
      decoded == IF JwtWellFormed(token.s) THEN JwtDecode(token.s) ELSE NullDecoded
  IN  IF TokenMissing(token)
      THEN [req |-> [req EXCEPT !.trace = @ \o <<"extract">>],
            resp |-> MessageResponse(401, "Authentication token required")]
      ELSE IF ~decoded.ok
      THEN [req |-> [req EXCEPT !.trace = @ \o <<"extract", "verify">>],
            resp |-> MessageResponse(401, "Invalid or expired token")]
      ELSE [req |-> [req EXCEPT !.trace = @ \o <<"extract", "verify">>,
                                !.decoded = decoded, !.pc = "gate"],
            resp |-> NoResponse]

\* requireAuth up to its await: the request with what was attached, and the
\* response if it was rejected (status 0: not answered yet)
requireAuthSync(req, t) ==
  LET token == ExtractToken(req.header)
      verified == verifyToken(token.s, t)
      decoded == verified.value
  IN  IF TokenMissing(token)
      THEN [req |-> [req EXCEPT !.trace = @ \o <<"extract">>],
            resp |-> MessageResponse(401, "Authentication token required")]
      ELSE IF verified.thrown # ""
      THEN [req |-> [req EXCEPT !.trace = @ \o <<"extract", "verify">>],
            resp |-> MessageResponse(401, "Authentication failed")]
      ELSE IF ~decoded.ok
      THEN [req |-> [req EXCEPT !.trace = @ \o <<"extract", "verify">>],
            resp |-> MessageResponse(401, "Invalid or expired token")]
      ELSE [req |-> [req EXCEPT !.trace = @ \o <<"extract", "verify">>,
                                !.decoded = decoded, !.pc = "gate"],
            resp |-> NoResponse]

\* a lookup without .select('-password')
SelectAll(u) == u

\* .select('-password')
SelectMinusPassword(u) ==
  [_id |-> u._id, name |-> u.name, email |-> u.email, createdAt |-> u.createdAt]

\* User.findById
FindUserById(us, id) == {u \in us : u._id = id}

\* requireAuth answering a failed lookup as a server error
requireAuthLookup500(req, us, fail) ==
  LET found == FindUserById(us, req.decoded.userId)
      looked == [req EXCEPT !.trace = @ \o <<"findUser">>]
  IN  IF fail
      THEN [req |-> looked, resp |-> MessageResponse(500, "Authentication failed")]
      ELSE IF found = {}
      THEN [req |-> looked, resp |-> MessageResponse(401, "User not found")]
      ELSE LET u == CHOOSE x \in found : TRUE
           IN  [req |-> [looked EXCEPT !.user = <<SelectMinusPassword(u)>>,
                                       !.userId = u._id,
                                       !.trace = @ \o <<"attach", "next">>],
                resp |-> NoResponse]

\* requireAuth after User.findById(decoded.userId).select('-password') settled
requireAuthLookup(req, us, fail) ==
  LET found == FindUserById(us, req.decoded.userId)
      looked == [req EXCEPT !.trace = @ \o <<"findUser">>]
  IN  IF fail
      THEN [req |-> looked, resp |-> MessageResponse(401, "Authentication failed")]
      ELSE IF found = {}
      THEN [req |-> looked, resp |-> MessageResponse(401, "User not found")]
      ELSE LET u == CHOOSE x \in found : TRUE
           IN  [req |-> [looked EXCEPT !.user = <<SelectMinusPassword(u)>>,
                                       !.userId = u._id,
                                       !.trace = @ \o <<"attach", "next">>],
                resp |-> NoResponse]

(***************************************************************************)
(* controllers/taskController.js and routes/tasks.js                       *)
(***************************************************************************)
InvalidTaskId == ErrorResponse(400, "Invalid task ID")
TaskNotFound == ErrorResponse(404, "Task not found or access denied")

\* a length check that is off by one
createTaskValidateOffByOne(body) ==
  IF ~Truthy(body.title) \/ Len(Trim(body.title.v)) = 0
  THEN ErrorResponse(400, "Title is required and cannot be empty")
  ELSE IF LengthOf(body.title) >= MaxTitleLen
  THEN ErrorResponse(400, "Title cannot exceed 40 characters")
  ELSE IF Truthy(body.description) /\ LengthOf(body.description) > MaxDescriptionLen
  THEN ErrorResponse(400, "Description cannot exceed 500 characters")
  ELSE NoResponse

\* createTask before its try block
createTaskValidate(body) ==
  IF ~Truthy(body.title) \/ Len(Trim(body.title.v)) = 0
  THEN ErrorResponse(400, "Title is required and cannot be empty")
  ELSE IF LengthOf(body.title) > MaxTitleLen
  THEN ErrorResponse(400, "Title cannot exceed 40 characters")
  ELSE IF Truthy(body.description) /\ LengthOf(body.description) > MaxDescriptionLen
  THEN ErrorResponse(400, "Description cannot exceed 500 characters")
  ELSE NoResponse

\* an update that leaves the checks of title and description to the store
updateTaskValidateIdOnly(id, body) ==
  IF ~ObjectIdIsValid(id) THEN InvalidTaskId ELSE NoResponse

\* updateTask before its try block
updateTaskValidate(id, body) ==
  IF ~ObjectIdIsValid(id) THEN InvalidTaskId
  ELSE IF body.title # Undef /\ (~Truthy(body.title) \/ Len(Trim(body.title.v)) = 0)
  THEN ErrorResponse(400, "Title cannot be empty")
  ELSE IF body.title # Undef /\ LengthOf(body.title) > MaxTitleLen
  THEN ErrorResponse(400, "Title cannot exceed 40 characters")
  ELSE IF body.description # Undef /\ LengthOf(body.description) > MaxDescriptionLen
  THEN ErrorResponse(400, "Description cannot exceed 500 characters")
  ELSE NoResponse

\* a handler that hands any id to the store
idValidateNone(id) == NoResponse

\* deleteTask and getTaskById before their try block
idValidate(id) == IF ~ObjectIdIsValid(id) THEN InvalidTaskId ELSE NoResponse

\* the synchronous part of a task route handler, run by next()
taskHandlerSync(req) ==
  CASE req.route = "create" -> createTaskValidate(req.body)
    [] req.route = "update" -> updateTaskValidate(req.id, req.body)
    [] req.route \in {"get", "delete"} -> idValidate(req.id)
    [] OTHER -> NoResponse

\* Task.find({ userId }), Task.findOne({ _id, userId })
FindTasksByUser(ts, userId) == {t \in ts : t.userId = userId}
FindTask(ts, id, userId) == {t \in ts : t._id = id /\ t.userId = userId}

\* the orders in which a cursor may deliver the documents of S
Orders(S) ==
  {f \in [1..Cardinality(S) -> S] : \A x \in S : \E i \in 1..Cardinality(S) : f[i] = x}

\* a sort on the time of the last write
SortedByUpdatedAtDesc(S) ==
  {f \in Orders(S) : \A i, j \in 1..Cardinality(S) : i < j => f[i].updatedAt >= f[j].updatedAt}

\* .sort({ createdAt: -1 })
SortedByCreatedAtDesc(S) ==
  {f \in Orders(S) : \A i, j \in 1..Cardinality(S) : i < j => f[i].createdAt >= f[j].createdAt}

ToJSONList(f) == [i \in 1..Len(f) |-> TaskJSON(f[i])]

\* getTasks
getTasks(req, ts, order, fail) ==
  IF fail THEN [tasks |-> ts, resp |-> ErrorResponse(500, "Failed to fetch tasks")]
  ELSE [tasks |-> ts,
        resp |-> [status |-> 200,
                  body |-> [EmptyBody EXCEPT !.isArray = TRUE, !.tasks = ToJSONList(order)]]]

\* GET /tasks/debug
debugTasks(req, ts, order, fail) ==
  IF fail THEN [tasks |-> ts, resp |-> ErrorResponse(500, "store error")]
  ELSE [tasks |-> ts,
        resp |-> [status |-> 200,
                  body |-> [EmptyBody EXCEPT
                              !.tasks = ToJSONList(order),
                              !.debug = <<[userId |-> OidStr(req.userId),
                                           userEmail |-> req.user[1].email,
                                           taskCount |-> Len(order)]>>]]]

\* a document built from the body as sent, without trimming
NewTaskDocRaw(req, t) ==
  [_id |-> req.newId,
   title |-> req.body.title.v,
   description |-> IF Truthy(req.body.description) THEN req.body.description.v ELSE <<>>,
   completed |-> FALSE,
   userId |-> req.userId,
   createdAt |-> t, updatedAt |-> t]

\* the document new Task(taskData) builds, as save() stores it
NewTaskDoc(req, t) ==
  [_id |-> req.newId,
   title |-> Trim(Trim(req.body.title.v)),
   description |-> IF Truthy(req.body.description) THEN Trim(Trim(req.body.description.v)) ELSE <<>>,
   completed |-> FALSE,
   userId |-> req.userId,
   createdAt |-> t, updatedAt |-> t]

\* createTask: await newTask.save()
createTask(req, ts, t, fail) ==
  IF fail THEN [tasks |-> ts, resp |-> ErrorResponse(500, "Failed to create task")]
  ELSE LET doc == NewTaskDoc(req, t)
       IN  [tasks |-> ts \cup {doc},
            resp |-> [status |-> 201, body |-> [EmptyBody EXCEPT !.task = <<TaskJSON(doc)>>]]]

\* an update that copies every field of the body
ApplyUpdateWithOwner(doc, body, t) ==
  [doc EXCEPT
     !.title = IF body.title # Undef THEN Trim(body.title.v) ELSE @,
     !.description = IF body.description # Undef
                     THEN (IF Truthy(body.description) THEN Trim(body.description.v) ELSE <<>>)
                     ELSE @,
     !.completed = IF body.completed # Undef THEN Truthy(body.completed) ELSE @,
     !.userId = IF body.userId # Undef THEN ParseOid(body.userId.v) ELSE @,
     !.updatedAt = t]

\* an update that replaces the document: fields left out get their defaults
ApplyUpdateReplace(doc, body, t) ==
  [doc EXCEPT
     !.title = IF body.title # Undef THEN Trim(body.title.v) ELSE @,
     !.description = IF body.description # Undef /\ Truthy(body.description)
                     THEN Trim(body.description.v) ELSE <<>>,
     !.completed = IF body.completed # Undef THEN Truthy(body.completed) ELSE FALSE,
     !.updatedAt = t]

\* an update that sets completed whether or not the body carries it
ApplyUpdateCompletedAlways(doc, body, t) ==
  [doc EXCEPT
     !.title = IF body.title # Undef THEN Trim(body.title.v) ELSE @,
     !.description = IF body.description # Undef
                     THEN (IF Truthy(body.description) THEN Trim(body.description.v) ELSE <<>>)
                     ELSE @,
     !.completed = Truthy(body.completed),
     !.updatedAt = t]

\* updateData applied to a stored document
ApplyUpdate(doc, body, t) ==
  [doc EXCEPT
     !.title = IF body.title # Undef THEN Trim(body.title.v) ELSE @,
     !.description = IF body.description # Undef
                     THEN (IF Truthy(body.description) THEN Trim(body.description.v) ELSE <<>>)
                     ELSE @,
     !.completed = IF body.completed # Undef THEN Truthy(body.completed) ELSE @,
     !.updatedAt = t]

\* a filter on the id alone
updateFilterById(ts, req) == {t \in ts : t._id = ParseOid(req.id)}

\* the filter of updateTask's findOneAndUpdate
updateFilter(ts, req) == FindTask(ts, ParseOid(req.id), req.userId)

\* an update with { upsert: true }: a document is inserted when none is found
updateTaskUpsert(req, ts, t, fail) ==
  LET found == updateFilter(ts, req)
      blank == [_id |-> ParseOid(req.id), title |-> <<>>, description |-> <<>>,
                completed |-> FALSE, userId |-> req.userId, createdAt |-> t, updatedAt |-> t]
      old == IF found = {} THEN blank ELSE CHOOSE x \in found : TRUE
      new == ApplyUpdate(old, req.body, t)
  IN  IF fail THEN [tasks |-> ts, resp |-> ErrorResponse(500, "Failed to update task")]
      ELSE [tasks |-> (ts \ {old}) \cup {new},
            resp |-> [status |-> 200, body |-> [EmptyBody EXCEPT !.task = <<TaskJSON(new)>>]]]

\* updateTask: await Task.findOneAndUpdate(filter, updateData, { new: true })
updateTask(req, ts, t, fail) ==
  LET found == updateFilter(ts, req)
  IN  IF fail THEN [tasks |-> ts, resp |-> ErrorResponse(500, "Failed to update task")]
      ELSE IF found = {} THEN [tasks |-> ts, resp |-> TaskNotFound]
      ELSE LET old == CHOOSE x \in found : TRUE
               new == ApplyUpdate(old, req.body, t)
           IN  [tasks |-> (ts \ {old}) \cup {new},
                resp |-> [status |-> 200, body |-> [EmptyBody EXCEPT !.task = <<TaskJSON(new)>>]]]

\* the filter of deleteTask's findOneAndDelete
deleteFilter(ts, req) == FindTask(ts, ParseOid(req.id), req.userId)

\* a delete that answers with the document found and leaves it stored
deleteTaskKeep(req, ts, fail) ==
  LET found == deleteFilter(ts, req)
  IN  IF fail THEN [tasks |-> ts, resp |-> ErrorResponse(500, "Failed to delete task")]
      ELSE IF found = {} THEN [tasks |-> ts, resp |-> TaskNotFound]
      ELSE [tasks |-> ts,
            resp |-> [status |-> 200,
                      body |-> [EmptyBody EXCEPT !.message = "Task deleted successfully",
                                                 !.task = <<TaskJSON(CHOOSE x \in found : TRUE)>>]]]

\* deleteTask: await Task.findOneAndDelete(filter)
deleteTask(req, ts, fail) ==
  LET found == deleteFilter(ts, req)
  IN  IF fail THEN [tasks |-> ts, resp |-> ErrorResponse(500, "Failed to delete task")]
      ELSE IF found = {} THEN [tasks |-> ts, resp |-> TaskNotFound]
      ELSE LET old == CHOOSE x \in found : TRUE
           IN  [tasks |-> ts \ {old},
                resp |-> [status |-> 200,
                          body |-> [EmptyBody EXCEPT !.message = "Task deleted successfully",
                                                     !.task = <<TaskJSON(old)>>]]]

\* a filter on the id alone
getFilterById(ts, req) == {t \in ts : t._id = ParseOid(req.id)}

\* the filter of getTaskById's findOne
getFilter(ts, req) == FindTask(ts, ParseOid(req.id), req.userId)

\* getTaskById: await Task.findOne(filter)
getTaskById(req, ts, fail) ==
  LET found == getFilter(ts, req)
  IN  IF fail THEN [tasks |-> ts, resp |-> ErrorResponse(500, "Failed to fetch task")]
      ELSE IF found = {} THEN [tasks |-> ts, resp |-> TaskNotFound]
      ELSE [tasks |-> ts,
            resp |-> [status |-> 200,
                      body |-> [EmptyBody EXCEPT !.task = <<TaskJSON(CHOOSE x \in found : TRUE)>>]]]

\* the store operation of a task route and its response
taskStoreOp(req, ts, t, order, fail) ==
  CASE req.route = "list" -> getTasks(req, ts, order, fail)
    [] req.route = "debug" -> debugTasks(req, ts, order, fail)
    [] req.route = "create" -> createTask(req, ts, t, fail)
    [] req.route = "update" -> updateTask(req, ts, t, fail)
    [] req.route = "delete" -> deleteTask(req, ts, fail)
    [] req.route = "get" -> getTaskById(req, ts, fail)

\* a filter that takes the user from the request parameters when they name one
listFilterByParam(ts, req) ==
  IF req.body.userId # Undef
  THEN FindTasksByUser(ts, ParseOid(req.body.userId.v))
  ELSE FindTasksByUser(ts, req.userId)

\* the filter of getTasks' find
listFilter(ts, req) == FindTasksByUser(ts, req.userId)

\* the filter of the debug route's find
debugFilter(ts, req) == FindTasksByUser(ts, req.userId)

\* the orders a list or debug request may get its documents in
taskOrders(req, ts) ==
  CASE req.route = "list" -> SortedByCreatedAtDesc(listFilter(ts, req))
    [] req.route = "debug" -> Orders(debugFilter(ts, req))
    [] OTHER -> {<<>>}

(***************************************************************************)
(* models/User.js and routes/auth.js                                       *)
(***************************************************************************)
\* the user object the auth routes put in a response
UserPublic(u) == [_id |-> OidStr(u._id), name |-> u.name, email |-> u.email]

\* the email setters of the schema: lowercase, trim (they also cast a query)
EmailSetter(j) == Trim(ToLowerCase(CastString(j)))

\* User.findOne({ email })
FindUserByEmail(us, email) == {u \in us : u.email = EmailSetter(email)}

\* a response carrying a token and the user
AuthResponse(status, m, u, t) ==
  [status |-> status,
   body |-> [EmptyBody EXCEPT !.message = m, !.token = generateToken(u._id, t),
                              !.user = <<UserPublic(u)>>]]

\* POST /auth/register up to its first await
registerValidate(body) ==
  IF ~Truthy(body.name) \/ ~Truthy(body.email) \/ ~Truthy(body.password)
  THEN MessageResponse(400, "All fields are required")
  ELSE IF HasLength(body.password) /\ LengthOf(body.password) < MinPasswordLen
  THEN MessageResponse(400, "Password must be at least 6 characters")
  ELSE NoResponse

RegistrationFailed == MessageResponse(500, "Server error during registration")

\* POST /auth/register after await User.findOne({ email })
registerFind(req, us, fail) ==
  IF fail THEN RegistrationFailed
  ELSE IF FindUserByEmail(us, req.body.email) # {}
  THEN MessageResponse(400, "User already exists with this email")
  ELSE NoResponse

\* new User({ name, email, password }) with the setters of the schema applied
NewUserDoc(req, t) ==
  [_id |-> req.newId,
   name |-> Trim(CastString(req.body.name)),
   email |-> EmailSetter(req.body.email),
   password |-> CastString(req.body.password),
   createdAt |-> t]

\* the validators of userSchema, run by save() before the pre('save') hook
UserDocValid(doc) ==
  /\ doc.name # <<>> /\ Len(doc.name) >= MinNameLen /\ Len(doc.name) <= MaxNameLen
  /\ doc.email # <<>>
  /\ doc.password # <<>> /\ Len(doc.password) >= MinPasswordLen

\* a collection without the unique index
NoUniqueIndex(us, doc) == FALSE

\* email: unique: true, the index that refuses a second document with the email
UniqueIndexViolated(us, doc) == \E u \in us : u.email = doc.email

\* POST /auth/register: await user.save() and the response
registerSave(req, us, t, salt, fail) ==
  LET doc == NewUserDoc(req, t)
      stored == [doc EXCEPT !.password = BcryptHash(doc.password, salt)]
  IN  IF fail \/ ~UserDocValid(doc) \/ UniqueIndexViolated(us, doc)
      THEN [users |-> us, resp |-> RegistrationFailed]
      ELSE [users |-> us \cup {stored},
            resp |-> AuthResponse(201, "User registered successfully", stored, t)]

\* POST /auth/login up to its first await
loginValidate(body) ==
  IF ~Truthy(body.email) \/ ~Truthy(body.password)
  THEN MessageResponse(400, "Email and password are required")
  ELSE NoResponse

InvalidCredentials == MessageResponse(401, "Invalid credentials")

\* userSchema.methods.comparePassword
comparePassword(u, candidate) == BcryptCompare(candidate, u.password)

\* POST /auth/login after await User.findOne({ email })
loginFind(req, us, t, fail) ==
  LET found == FindUserByEmail(us, req.body.email)
  IN  IF fail THEN MessageResponse(500, "Server error during login")
      ELSE IF found = {} THEN InvalidCredentials
      ELSE LET u == CHOOSE x \in found : TRUE
           IN  IF BcryptCompareThrows(req.body.password)
               THEN MessageResponse(500, "Server error during login")
               ELSE IF ~comparePassword(u, req.body.password) THEN InvalidCredentials
               ELSE AuthResponse(200, "Login successful", u, t)

\* a logout that removes what the tokens depend on
logoutStoreCleared(us) == {}

\* the users collection after POST /auth/logout: the handler makes no store call
logoutStore(us) == us

\* POST /auth/logout
logout == MessageResponse(200, "Logout successful")

\* GET /auth/me after requireAuth
me(req) ==
  [status |-> 200,
   body |-> [EmptyBody EXCEPT
               !.user = <<[_id |-> OidStr(req.user[1]._id), name |-> req.user[1].name,
                           email |-> req.user[1].email]>>]]

(***************************************************************************)
(* What clients send.  A profile names the inputs a specification draws    *)
(* from; the headers carrying a token the server issued are added to it.   *)
(***************************************************************************)
Secret1 == <<"s", "e", "c", "r", "e", "t">>
Wrong1 == <<"w", "r", "o", "n", "g", "1">>
Digits6 == <<"1", "2", "3", "4", "5", "6">>

Credentials(names, emails, passwords) ==
  {[EmptyReqBody EXCEPT !.name = n, !.email = e, !.password = p] :
     n \in names, e \in emails, p \in passwords}

\* the instants up to the current one
PastInstants == {Instants[i] : i \in 1..clock}

\* the tokens register and login have handed out, or would on request: a
\* login of a stored user succeeds at any instant since its registration
IssuedTokens ==
  UNION {{generateToken(u._id, t) : t \in {i \in PastInstants : i >= u.createdAt}} : u \in users}

\* a token signed by this secret for a user that is not in this store
GhostToken == generateToken(GhostUserId, Instants[1])
\* tokens made without the secret
ForgedToken == JwtSign(1, OtherKey, SevenDays, Instants[1])
TamperedToken == SubSeq(generateToken(2, Instants[1]), 1, 4) \o SubSeq(generateToken(1, Instants[1]), 5, 8)
GarbageToken == <<"g">>

\* headers without a token, and headers with a token no user holds
HeadersWithoutToken ==
  {NoHeader, HeaderOf(<<>>), HeaderOf(Bearer), HeaderOf(SubSeq(Bearer, 1, 6)),
   HeaderOf(<<"b", "e", "a", "r", "e", "r", " ">> \o GhostToken), HeaderOf(GhostToken)}
HeadersWithBadToken ==
  {HeaderOf(Bearer \o ForgedToken), HeaderOf(Bearer \o TamperedToken),
   HeaderOf(Bearer \o GarbageToken)}
GhostHeader == HeaderOf(Bearer \o GhostToken)

HeaderInputs(P) == P.headers \cup {HeaderOf(Bearer \o t) : t \in IssuedTokens}

\* ids in a URL: those tasks may get, one no task ever gets, a malformed one
NeverId == OidStr(TaskIdBase + MaxTasks + 1)
IdInputs ==
  {OidStr(TaskIdBase + i) : i \in 1..MaxTasks} \cup {NeverId, <<"x">>}

TaskBodies(P, route) ==
  CASE route = "create" -> P.creates
    [] route = "update" -> P.updates
    [] route \in {"list", "debug"} -> P.listParams
    [] OTHER -> {EmptyReqBody}

TaskIds(route) == IF route \in {"get", "update", "delete"} THEN IdInputs ELSE {<<>>}

TaskBody(t, d, c, u) ==
  [EmptyReqBody EXCEPT !.title = t, !.description = d, !.completed = c, !.userId = u]

TitleA == JStr(<<" ", "a", " ">>)
TitleB == JStr(<<"b">>)
DescD == JStr(<<"d">>)
NameAl == JStr(<<"A", "l">>)
EmailA == JStr(<<"a">>)
EmailB == JStr(<<"b">>)

\* the inputs of the task-isolation specification
TaskProfile ==
  [routes |-> ProtectedRoutes,
   headers |-> {NoHeader, GhostHeader},
   creates |-> {TaskBody(TitleA, Undef, Undef, JStr(OidStr(1))), TaskBody(JStr(<<>>), Undef, Undef, Undef)},
   updates |-> {TaskBody(Undef, Undef, Undef, Undef),
                TaskBody(Undef, Undef, JBool(TRUE), Undef),
                TaskBody(TitleB, DescD, JBool(FALSE), JStr(OidStr(1))),
                TaskBody(JStr(<<>>), DescD, Undef, Undef)},
   listParams |-> {TaskBody(Undef, Undef, Undef, Undef), TaskBody(Undef, Undef, Undef, JStr(OidStr(1)))},
   registers |-> Credentials({NameAl}, {EmailA, EmailB}, {JStr(Secret1)}),
   logins |-> Credentials({Undef}, {EmailA}, {JStr(Secret1), JStr(Wrong1)}),
   gateFails |-> {FALSE},
   taskFails |-> BOOLEAN,
   authFails |-> {FALSE}]

\* the inputs of the authentication specification
AuthProfile ==
  [routes |-> {"me", "create"},
   headers |-> HeadersWithoutToken \cup HeadersWithBadToken \cup {GhostHeader},
   creates |-> {TaskBody(TitleB, Undef, Undef, Undef)},
   updates |-> {},
   listParams |-> {},
   registers |-> Credentials({NameAl, Undef}, {EmailA, EmailB}, {JStr(Secret1), JStr(<<"p", "w">>)}),
   logins |-> Credentials({Undef}, {EmailA, EmailB},
                          {JStr(Secret1), JStr(Wrong1), JNum(Digits6), Undef}),
   gateFails |-> BOOLEAN,
   taskFails |-> {FALSE},
   authFails |-> BOOLEAN]

(***************************************************************************)
(* Actions                                                                 *)
(***************************************************************************)
NoSent == [req |-> Idle, resp |-> NoResponse]

\* what is known of a token from the way it was made
TokenMeta(kind, userId, iat, exp, key) ==
  [kind |-> kind, userId |-> userId, iat |-> iat, exp |-> exp, key |-> key]

NoCall ==
  [fn |-> "none", token |-> <<>>, meta |-> TokenMeta("none", 0, 0, 0, ""), at |-> 0,
   result |-> Return(NullDecoded)]

\* the server is up and the migration script is not running
Listening == [server |-> "listening", script |-> "idle", defaultUser |-> 0]

\* no browser takes part
NoClient == [user |-> <<>>]

\* what a settled store operation of a task route adds to the history of the
\* tasks created: a create that stored a document is recorded with its
\* request, and a task an update or delete wrote to is marked
recordCreated(hist, req, before, r) ==
  LET written == {x._id : x \in before \ r.tasks}
      added == {x \in r.tasks : x._id \notin {y._id : y \in before}}
      answered == IF req.route \in {"update", "delete"} /\ r.resp.status = 200
                  THEN {c \in hist : OidStr(c.id) = req.id} ELSE {}
  IN  {[c EXCEPT !.touched = @ \/ c.id \in written \/ c \in answered] : c \in hist}
      \cup {[id |-> x._id, userId |-> req.userId, body |-> req.body, touched |-> FALSE] :
               x \in IF req.route = "create" THEN added ELSE {}}

Init ==
  /\ users = {}
  /\ tasks = {}
  /\ userIds = 0
  /\ taskIds = 0
  /\ clock = 1
  /\ slots = [s \in 1..MaxInFlight |-> Idle]
  /\ sent = NoSent
  /\ deleted = {}
  /\ created = {}
  /\ boot = Listening
  /\ client = NoClient
  /\ call = NoCall

Answer(req, resp) ==
  /\ sent' = [req |-> [req EXCEPT !.pc = "done"], resp |-> resp]
  /\ UNCHANGED call

Finish(s, req, resp) ==
  /\ Answer(req, resp)
  /\ slots' = [slots EXCEPT ![s] = Idle]

Continue(s, req) ==
  /\ slots' = [slots EXCEPT ![s] = req]
  /\ sent' = NoSent
  /\ UNCHANGED call

\* what a settled store operation adds to the trace of its request
StoreTrace(fail) == IF fail THEN <<"store", "storeError">> ELSE <<"store">>

InFlight(route, pcs) == Cardinality({s \in Slots : slots[s].route = route /\ slots[s].pc \in pcs})

\* a request to a protected route arrives: requireAuth runs up to its await
ArriveProtected(P, s) ==
  /\ slots[s] = Idle
  /\ \E route \in P.routes, header \in HeaderInputs(P) :
       LET r == requireAuthSync(NewRequest(route, header, <<>>, EmptyReqBody), now)
       IN  /\ route = "create" => taskIds + InFlight("create", {"gate"}) < MaxTasks
           /\ IF r.resp.status # 0
              THEN Answer(r.req, r.resp) /\ UNCHANGED slots
              ELSE Continue(s, r.req)
  /\ UNCHANGED <<client, boot, created, deleted, users, tasks, userIds, taskIds, clock>>

\* User.findById settles: the rest of requireAuth, then next() runs the
\* route handler up to its await.  The id and the body of the request, which
\* requireAuth does not read, are drawn here, where the handler reads them.
GateLookup(P, s) ==
  /\ slots[s].pc = "gate"
  /\ \E fail \in P.gateFails, id \in TaskIds(slots[s].route), body \in TaskBodies(P, slots[s].route) :
       LET r == requireAuthLookup([slots[s] EXCEPT !.id = id, !.body = body], users, fail)
           handled == [r.req EXCEPT !.trace = @ \o <<"handler">>]
           h == taskHandlerSync(r.req)
       IN  IF r.resp.status # 0
           THEN Finish(s, [r.req EXCEPT !.id = <<>>, !.body = EmptyReqBody], r.resp)
                /\ UNCHANGED taskIds
           ELSE IF r.req.route = "me"
           THEN Finish(s, handled, me(r.req)) /\ UNCHANGED taskIds
           ELSE IF h.status # 0
           THEN Finish(s, handled, h) /\ UNCHANGED taskIds
           ELSE IF r.req.route = "create"
           THEN /\ Continue(s, [handled EXCEPT !.pc = "store", !.newId = TaskIdBase + taskIds + 1])
                /\ taskIds' = taskIds + 1
           ELSE /\ Continue(s, [handled EXCEPT !.pc = "store"])
                /\ UNCHANGED taskIds
  /\ UNCHANGED <<client, boot, created, deleted, users, tasks, userIds, clock>>

\* the store operation of a task route handler settles and the handler answers
TaskStore(P, s) ==
  /\ slots[s].pc = "store"
  /\ \E fail \in P.taskFails, order \in taskOrders(slots[s], tasks) :
       LET r == taskStoreOp(slots[s], tasks, now, order, fail)
       IN  /\ tasks' = r.tasks
           /\ deleted' = deleted \cup ({x._id : x \in tasks} \ {x._id : x \in r.tasks})
           /\ created' = recordCreated(created, slots[s], tasks, r)
           /\ Finish(s, [slots[s] EXCEPT !.trace = @ \o StoreTrace(fail)], r.resp)
  /\ UNCHANGED <<client, boot, users, userIds, taskIds, clock>>

\* POST /auth/register arrives
ArriveRegister(P, s) ==
  /\ slots[s] = Idle
  /\ userIds + InFlight("register", {"regFind"}) < MaxUsers
  /\ \E body \in P.registers :
       LET req == NewRequest("register", NoHeader, <<>>, body)
           v == registerValidate(body)
       IN  IF v.status # 0
           THEN Answer(req, v) /\ UNCHANGED slots
           ELSE Continue(s, [req EXCEPT !.pc = "regFind"])
  /\ UNCHANGED <<client, boot, created, deleted, users, tasks, userIds, taskIds, clock>>

\* User.findOne of the registration settles; new User(...) is constructed
RegisterFind(P, s) ==
  /\ slots[s].pc = "regFind"
  /\ \E fail \in P.authFails :
       LET v == registerFind(slots[s], users, fail)
       IN  IF v.status # 0
           THEN Finish(s, [slots[s] EXCEPT !.trace = @ \o StoreTrace(fail)], v) /\ UNCHANGED userIds
           ELSE /\ Continue(s, [slots[s] EXCEPT !.pc = "regSave", !.newId = userIds + 1])
                /\ userIds' = userIds + 1
  /\ UNCHANGED <<client, boot, created, deleted, users, tasks, taskIds, clock>>

\* user.save() settles and the registration answers
RegisterSave(P, s) ==
  /\ slots[s].pc = "regSave"
  /\ \E fail \in P.authFails, salt \in Salts :
       LET r == registerSave(slots[s], users, now, salt, fail)
       IN  /\ users' = r.users
           /\ Finish(s, [slots[s] EXCEPT !.trace = @ \o StoreTrace(fail)], r.resp)
  /\ UNCHANGED <<client, boot, created, deleted, tasks, userIds, taskIds, clock>>

\* POST /auth/login arrives
ArriveLogin(P, s) ==
  /\ slots[s] = Idle
  /\ \E body \in P.logins :
       LET req == NewRequest("login", NoHeader, <<>>, body)
           v == loginValidate(body)
       IN  IF v.status # 0
           THEN Answer(req, v) /\ UNCHANGED slots
           ELSE Continue(s, [req EXCEPT !.pc = "loginFind"])
  /\ UNCHANGED <<client, boot, created, deleted, users, tasks, userIds, taskIds, clock>>

\* User.findOne of the login settles, the password is compared, the login answers
LoginFind(P, s) ==
  /\ slots[s].pc = "loginFind"
  /\ \E fail \in P.authFails :
       Finish(s, [slots[s] EXCEPT !.trace = @ \o StoreTrace(fail)], loginFind(slots[s], users, now, fail))
  /\ UNCHANGED <<client, boot, created, deleted, users, tasks, userIds, taskIds, clock>>

\* POST /auth/logout
Logout ==
  /\ Answer(NewRequest("logout", NoHeader, <<>>, EmptyReqBody), logout)
  /\ users' = logoutStore(users)
  /\ UNCHANGED <<client, boot, created, deleted, tasks, userIds, taskIds, clock, slots>>

\* time passes
Tick ==
  /\ clock < MaxInstant
  /\ clock' = clock + 1
  /\ sent' = NoSent
  /\ UNCHANGED <<client, boot, created, deleted, users, tasks, userIds, taskIds, slots, call>>

\* the task routes and what they need of the auth routes, at one instant
Next ==
  \/ \E s \in Slots : ArriveProtected(TaskProfile, s)
  \/ \E s \in Slots : GateLookup(TaskProfile, s)
  \/ \E s \in Slots : TaskStore(TaskProfile, s)
  \/ \E s \in Slots : ArriveRegister(TaskProfile, s)
  \/ \E s \in Slots : RegisterFind(TaskProfile, s)
  \/ \E s \in Slots : RegisterSave(TaskProfile, s)
  \/ \E s \in Slots : ArriveLogin(TaskProfile, s)
  \/ \E s \in Slots : LoginFind(TaskProfile, s)
  \/ Logout

Spec == Init /\ [][Next]_vars

\* the auth routes and the auth gate, over time
NextAuth ==
  \/ \E s \in Slots : ArriveProtected(AuthProfile, s)
  \/ \E s \in Slots : GateLookup(AuthProfile, s)
  \/ \E s \in Slots : TaskStore(AuthProfile, s)
  \/ \E s \in Slots : ArriveRegister(AuthProfile, s)
  \/ \E s \in Slots : RegisterFind(AuthProfile, s)
  \/ \E s \in Slots : RegisterSave(AuthProfile, s)
  \/ \E s \in Slots : ArriveLogin(AuthProfile, s)
  \/ \E s \in Slots : LoginFind(AuthProfile, s)
  \/ Logout
  \/ Tick

SpecAuth == Init /\ [][NextAuth]_vars

(***************************************************************************)
(* The token utilities on their own: tokens are minted at the instants of  *)
(* the clock, and minted or crafted tokens are verified at later instants. *)
(***************************************************************************)
TokenUserIds == (1..MaxUsers) \cup {GhostUserId}
FirstInstants == {Instants[i] : i \in 1..2}

\* tokens made outside generateToken: any payload, under the secret or another
\* key, and tokens whose payload was changed after signing
CraftedTokens ==
  UNION {{[token |-> JwtEncode(u, i, e, k), meta |-> TokenMeta("signed", u, i, e, k)] :
            u \in TokenUserIds, e \in {i + SevenDays} \cup FirstInstants,
            k \in {JwtSecret, OtherKey}} : i \in FirstInstants}
  \cup
  {[token |-> <<NumStr(GhostUserId)>> \o Tail(JwtEncode(u, i, i + SevenDays, JwtSecret)),
    meta |-> TokenMeta("tampered", GhostUserId, i, i + SevenDays, JwtSecret)] :
     u \in 1..MaxUsers, i \in FirstInstants}
  \cup
  {[token |-> g, meta |-> TokenMeta("malformed", 0, 0, 0, "")] :
     g \in {<<>>, GarbageToken, SubSeq(GhostToken, 1, 4), GhostToken \o <<"x">>}}

\* generateToken(userId) is called
Generate ==
  /\ \E u \in TokenUserIds :
       call' = [fn |-> "generateToken", token |-> generateToken(u, now),
                meta |-> TokenMeta("issued", u, now, 0, JwtSecret), at |-> now,
                result |-> Return(NullDecoded)]
  /\ UNCHANGED <<client, boot, created, deleted, users, tasks, userIds, taskIds, clock, slots, sent>>

\* verifyToken(token) is called on a crafted token or on the token at hand
Verify ==
  /\ \E input \in CraftedTokens \cup {[token |-> call.token, meta |-> call.meta]} :
       /\ input.meta.kind # "none"
       /\ call' = [fn |-> "verifyToken", token |-> input.token, meta |-> input.meta,
                   at |-> now, result |-> verifyToken(input.token, now)]
  /\ UNCHANGED <<client, boot, created, deleted, users, tasks, userIds, taskIds, clock, slots, sent>>

NextJwt == Generate \/ Verify \/ Tick

SpecJwt == Init /\ [][NextJwt]_vars

\* C6: verifyToken never throws; it returns the decoded identity exactly when
\* the token carries an intact signature under the process secret and the
\* time of the call is before its expiry, and null otherwise; a token that
\* generateToken issued at time t expires at t + 7 days.
C6_VerifyToken ==
  call.fn = "verifyToken" =>
    LET accepted == call.result.value.ok
        expiry == IF call.meta.kind = "issued" THEN call.meta.iat + SevenDays ELSE call.meta.exp
    IN  /\ call.result.thrown = ""
        /\ accepted <=> /\ call.meta.kind \in {"issued", "signed"}
                        /\ call.meta.key = JwtSecret
                        /\ call.at < expiry
        /\ accepted => call.result.value.userId = call.meta.userId
        /\ ~accepted => call.result.value = NullDecoded

\* an issued token is verified exactly seven days after it was issued and is refused
C6_Witness ==
  /\ call.fn = "verifyToken"
  /\ call.meta.kind = "issued"
  /\ call.at = call.meta.iat + SevenDays
  /\ ~call.result.value.ok

(***************************************************************************)
(* Properties of the task routes (Spec)                                    *)
(***************************************************************************)
\* slot s holds a task request whose store operation settles in this step
StoreStep(s) == slots[s].pc = "store" /\ slots'[s].pc = "idle"

\* the task a get, update or delete request names, whoever owns it
Target(req) == {t \in tasks : ObjectIdIsValid(req.id) /\ t._id = ParseOid(req.id)}

\* the request names a task of another user
CrossUser(req) == \E t \in Target(req) : t.userId # req.userId

\* C1: a get, update or delete authenticated as B against the id of a task
\* owned by another user A gets exactly the response it would get if no task
\* had that id: 404 with the not-found body (the store-failure answer when the
\* store fails), never the task's data.
C1_CrossUserLooksAbsent ==
  [][\A s \in Slots :
       (StoreStep(s) /\ slots[s].route \in {"get", "update", "delete"} /\ CrossUser(slots[s])) =>
         LET failed == Ran(sent'.req, "storeError")
             absent == taskStoreOp(slots[s], tasks \ Target(slots[s]), now, <<>>, failed)
         IN  /\ sent'.resp = absent.resp
             /\ ~failed => sent'.resp = ErrorResponse(404, "Task not found or access denied")
             /\ sent'.resp.body.task = <<>>
             /\ sent'.resp.status # 403]_vars

\* a get of another user's task was answered 404
C1_Witness ==
  /\ sent.req.route = "get"
  /\ sent.resp.status = 404
  /\ \E t \in tasks : t._id = ParseOid(sent.req.id) /\ t.userId # sent.req.userId

\* C2: only requests whose attached identity is the owner change or remove a
\* task: a step changes the task store only through an update or delete of the
\* owner, and an update or delete naming another user's task changes nothing.
C2_OnlyOwnerAlters ==
  [][/\ \A t \in tasks :
          t \notin tasks' =>
            \E s \in Slots : /\ StoreStep(s)
                             /\ slots[s].route \in {"update", "delete"}
                             /\ slots[s].userId = t.userId
                             /\ t._id = ParseOid(slots[s].id)
     /\ \A s \in Slots :
          (StoreStep(s) /\ slots[s].route \in {"update", "delete"} /\ CrossUser(slots[s])) =>
            tasks' = tasks]_vars

\* a delete of another user's task was refused and the task is still stored
C2_Witness ==
  /\ sent.req.route = "delete"
  /\ sent.resp.status = 404
  /\ \E t \in tasks : t._id = ParseOid(sent.req.id) /\ t.userId # sent.req.userId

\* the task documents of a response, as a set
Listed(resp) == {resp.body.tasks[i] : i \in 1..Len(resp.body.tasks)}

\* C3: GET /tasks and GET /tasks/debug answered for user U carry exactly the
\* stored tasks owned by U, each once, whatever parameters the request has,
\* and the debug taskCount is the number of tasks returned.
C3_ListIsOwnTasks ==
  (sent.req.route \in {"list", "debug"} /\ sent.resp.status = 200) =>
    /\ Listed(sent.resp) = {TaskJSON(t) : t \in {x \in tasks : x.userId = sent.req.userId}}
    /\ Len(sent.resp.body.tasks) = Cardinality(Listed(sent.resp))
    /\ sent.req.route = "debug" => sent.resp.body.debug[1].taskCount = Len(sent.resp.body.tasks)

\* a list whose parameters name another user returned the requester's one
\* task while the other user has a task too
C3_Witness ==
  /\ sent.req.route = "list"
  /\ sent.resp.status = 200
  /\ sent.req.body.userId # Undef
  /\ sent.req.body.userId.v # OidStr(sent.req.userId)
  /\ Len(sent.resp.body.tasks) = 1
  /\ \E t \in tasks : t.userId # sent.req.userId

\* C5: the owner of a task is the identity of the request that created it and
\* never changes while the task exists, whatever the body of an update carries.
C5_OwnerFixed ==
  [][/\ \A t \in tasks : \A u \in tasks' : u._id = t._id => u.userId = t.userId
     /\ \A u \in tasks' :
          (\A t \in tasks : t._id # u._id) =>
            \E s \in Slots : /\ StoreStep(s)
                             /\ slots[s].route = "create"
                             /\ u.userId = slots[s].userId
                             /\ u._id = slots[s].newId]_vars

\* an update whose body carries another user's id succeeded and the task kept its owner
C5_Witness ==
  /\ sent.req.route = "update"
  /\ sent.resp.status = 200
  /\ sent.req.body.userId # Undef
  /\ sent.req.body.userId.v # OidStr(sent.req.userId)
  /\ sent.resp.body.task[1].userId = OidStr(sent.req.userId)
  /\ \E t \in tasks : t._id = ParseOid(sent.req.id) /\ t.userId = sent.req.userId

\* every text a response carries
ResponseTexts(resp) ==
  {resp.body.token}
  \cup UNION {{resp.body.user[i].name, resp.body.user[i].email, resp.body.user[i]._id} :
                i \in 1..Len(resp.body.user)}
  \cup UNION {{resp.body.task[i].title, resp.body.task[i].description} :
                i \in 1..Len(resp.body.task)}
  \cup UNION {{resp.body.tasks[i].title, resp.body.tasks[i].description} :
                i \in 1..Len(resp.body.tasks)}
  \cup UNION {{resp.body.debug[i].userId, resp.body.debug[i].userEmail} :
                i \in 1..Len(resp.body.debug)}

\* the objects of a response or a request context that describe a user
HasNoPassword(seq) == \A i \in 1..Len(seq) : "password" \notin DOMAIN seq[i]

\* C10: no response and no user record attached to a request has a password
\* field, and no text of a response is a stored hash or the password the
\* request submitted.
C10_NoPasswordLeaves ==
  /\ HasNoPassword(sent.resp.body.user)
  /\ HasNoPassword(sent.resp.body.debug)
  /\ HasNoPassword(sent.resp.body.task)
  /\ HasNoPassword(sent.resp.body.tasks)
  /\ HasNoPassword(sent.req.user)
  /\ \A s \in Slots : HasNoPassword(slots[s].user)
  /\ \A u \in users : u.password \notin ResponseTexts(sent.resp)
  /\ Truthy(sent.req.body.password) => sent.req.body.password.v \notin ResponseTexts(sent.resp)

\* a login with the right password was answered with the user and a token
C10_Witness ==
  /\ sent.req.route = "login"
  /\ sent.resp.status = 200
  /\ Len(sent.resp.body.user) = 1
  /\ \E u \in users : u.email = sent.resp.body.user[1].email /\ u.password # <<>>

(***************************************************************************)
(* Properties of the auth gate and the auth routes (SpecAuth)              *)
(***************************************************************************)
AllInstants == {Instants[i] : i \in 1..Len(Instants)}

\* the header has no token: absent, not starting with 'Bearer ', or nothing after it
LacksBearerToken(h) ==
  \/ ~h.present
  \/ Len(h.value) <= BearerLen
  \/ \E i \in 1..BearerLen : h.value[i] # Bearer[i]

\* the text after 'Bearer '
Presented(h) == SubSeq(h.value, BearerLen + 1, Len(h.value))

\* the request carries a token issued under the secret for the stored user
\* that is attached to it
GatePassed(req, us) ==
  /\ ~LacksBearerToken(req.header)
  /\ \E u \in us, i \in AllInstants :
       /\ Presented(req.header) = JwtEncode(u._id, i, i + SevenDays, JwtSecret)
       /\ req.userId = u._id
       /\ Len(req.user) = 1 /\ req.user[1]._id = u._id /\ req.user[1].email = u.email

\* the token of the request is unexpired at time t
Unexpired(req, t) ==
  \E n \in TokenUserIds, i \in AllInstants :
    /\ Presented(req.header) = JwtEncode(n, i, i + SevenDays, JwtSecret)
    /\ t < i + SevenDays

\* C4: a handler of a protected route runs, and the task store changes, only
\* for a request whose Bearer token was verified as signed and unexpired when
\* the gate saw it and whose user was found in the store; the identity
\* attached is the one of the token.  Any other request is rejected without
\* handler code or store access.
C4_HandlerOnlyBehindGate ==
  [][/\ \A s \in Slots :
          (slots[s].pc = "idle" /\ slots'[s].pc = "gate") =>
            ~LacksBearerToken(slots'[s].header) /\ Unexpired(slots'[s], now)
     /\ \A s \in Slots : slots'[s].pc = "store" => GatePassed(slots'[s], users')
     /\ (sent'.req.route \in ProtectedRoutes /\ Ran(sent'.req, "handler")) =>
          GatePassed(sent'.req, users')
     /\ (sent'.req.route \in ProtectedRoutes /\ ~Ran(sent'.req, "handler")) =>
          /\ sent'.resp.status >= 400
          /\ ~Ran(sent'.req, "store")
          /\ tasks' = tasks
     /\ tasks' # tasks => \E s \in Slots : StoreStep(s) /\ GatePassed(slots[s], users)]_vars

\* a create behind the gate succeeded after the clock had advanced
C4_Witness ==
  /\ sent.req.route = "create"
  /\ sent.resp.status = 201
  /\ Ran(sent.req, "handler")
  /\ clock > 1

\* C7: every answer of the gate itself is 401 with a message and nothing
\* else, and a request the gate rejected never reaches next().
C7_GateRejectsWith401 ==
  sent.req.route \in ProtectedRoutes =>
    /\ ~Ran(sent.req, "next") =>
         /\ sent.resp.status = 401
         /\ sent.resp.body.message # ""
         /\ sent.resp.body = [EmptyBody EXCEPT !.message = sent.resp.body.message]
         /\ ~Ran(sent.req, "handler") /\ ~Ran(sent.req, "store")
    /\ sent.resp.status = 401 => ~Ran(sent.req, "next")

\* the user lookup itself failed and the gate answered 401
C7_Witness ==
  /\ sent.req.route \in ProtectedRoutes
  /\ Ran(sent.req, "findUser")
  /\ sent.resp = MessageResponse(401, "Authentication failed")

\* C8: a request without a Bearer token (no header, another prefix, nothing
\* after the prefix) is answered 401 'Authentication token required' and
\* neither the verifier nor the user store is consulted for it.
C8_NoTokenNoLookup ==
  /\ (sent.req.route \in ProtectedRoutes /\ LacksBearerToken(sent.req.header)) =>
       /\ sent.resp = MessageResponse(401, "Authentication token required")
       /\ sent.req.trace = <<"extract">>
  /\ \A s \in Slots : slots[s].pc \in {"gate", "store"} => ~LacksBearerToken(slots[s].header)

\* a header that is the prefix 'Bearer ' and nothing else was rejected
C8_Witness ==
  /\ sent.req.route \in ProtectedRoutes
  /\ sent.req.header = HeaderOf(Bearer)
  /\ sent.resp.status = 401

\* the email of a login request belongs to no stored user
UnknownEmail(req) == \A u \in users : u.email # Trim(ToLowerCase(req.body.email.v))

\* the email belongs to a stored user whose password is another one
WrongPassword(req) ==
  \E u \in users :
    /\ u.email = Trim(ToLowerCase(req.body.email.v))
    /\ \A salt \in Salts : u.password # BcryptHash(req.body.password.v, salt)

\* C9: a login with both fields present gets one and the same response when
\* the email is not registered and when the password is wrong.
C9_LoginUndifferentiated ==
  (/\ sent.req.route = "login"
   /\ Truthy(sent.req.body.email) /\ Truthy(sent.req.body.password)
   /\ ~Ran(sent.req, "storeError")
   /\ UnknownEmail(sent.req) \/ WrongPassword(sent.req)) =>
    sent.resp = MessageResponse(401, "Invalid credentials")

(***************************************************************************)
(* Registrations racing: two requests may be between their awaits at once. *)
(***************************************************************************)
NameA == JStr(<<"A">>)
NameLong == JStr(Repeat("n", MaxNameLen + 1))
EmailUpperA == JStr(<<"A">>)
ShortPassword == JStr(<<"p", "w">>)

\* the inputs of the registration specification
RegProfile ==
  [routes |-> {},
   headers |-> {},
   creates |-> {},
   updates |-> {},
   listParams |-> {},
   registers |-> Credentials({NameAl, NameA, NameLong, Undef}, {EmailA, EmailUpperA},
                             {JStr(Secret1), ShortPassword}),
   logins |-> {},
   gateFails |-> {FALSE},
   taskFails |-> {FALSE},
   authFails |-> BOOLEAN]

InitRace ==
  /\ users = {}
  /\ tasks = {}
  /\ userIds = 0
  /\ taskIds = 0
  /\ clock = 1
  /\ slots = [s \in 1..MaxRacers |-> Idle]
  /\ sent = NoSent
  /\ deleted = {}
  /\ created = {}
  /\ boot = Listening
  /\ client = NoClient
  /\ call = NoCall

NextReg ==
  \/ \E s \in Slots : ArriveRegister(RegProfile, s)
  \/ \E s \in Slots : RegisterFind(RegProfile, s)
  \/ \E s \in Slots : RegisterSave(RegProfile, s)

SpecReg == InitRace /\ [][NextReg]_vars

\* the registration the last step answered met every constraint on its fields
RegistrationWellFormed(req) ==
  /\ registerValidate(req.body).status = 0
  /\ UserDocValid(NewUserDoc(req, now))

\* the email of the registration the last step answered is held by a stored
\* user other than the one this request would be
EmailHeld(req) ==
  \E u \in users : u.email = EmailSetter(req.body.email) /\ u._id # req.newId

\* C11: no two stored users have the same email, compared without regard to
\* case, in any interleaving of registrations.
C11_EmailUnique ==
  \A u, v \in users : u # v => ToLowerCase(u.email) # ToLowerCase(v.email)

\* a registration that had passed the existence check was refused on save
\* because another registration of the email, in another case, was stored first
C11_Witness ==
  /\ sent.req.route = "register"
  /\ sent.req.newId # 0
  /\ ~Ran(sent.req, "storeError")
  /\ RegistrationWellFormed(sent.req)
  /\ sent.resp.status # 201
  /\ sent.req.body.email = EmailUpperA
  /\ \E u \in users : /\ u.email = EmailSetter(sent.req.body.email)
                      /\ u._id # sent.req.newId
  /\ Cardinality(users) = 1

\* C12: a registration that fails because a stored user holds its email is
\* answered 400 'User already exists with this email' and stores nothing.
C12_DuplicateIs400 ==
  (/\ sent.req.route = "register"
   /\ ~Ran(sent.req, "storeError")
   /\ RegistrationWellFormed(sent.req)
   /\ EmailHeld(sent.req)) =>
    /\ sent.resp = MessageResponse(400, "User already exists with this email")
    /\ \A u \in users : u._id # sent.req.newId

\* the registration the last step answered violates a constraint: a field is
\* missing, the name is shorter than 2 or longer than 50, the password is
\* shorter than 6
ViolatesConstraint(body) ==
  \/ ~Truthy(body.name) \/ ~Truthy(body.email) \/ ~Truthy(body.password)
  \/ Len(Trim(body.name.v)) < MinNameLen
  \/ Len(Trim(body.name.v)) > MaxNameLen
  \/ Len(body.password.v) < MinPasswordLen

\* C13: a registration that violates a constraint is answered 400, creates no
\* user and issues no token.
C13_ConstraintIs400 ==
  (/\ sent.req.route = "register"
   /\ ~Ran(sent.req, "storeError")
   /\ ViolatesConstraint(sent.req.body)) =>
    /\ sent.resp.status = 400
    /\ sent.resp.body.token = <<>>
    /\ \A u \in users : sent.req.newId # 0 => u._id # sent.req.newId

\* the login names a stored user and carries the password that user registered with
RightCredentials(req) ==
  \E u \in users :
    /\ u.email = EmailSetter(req.body.email)
    /\ \E salt \in Salts : u.password = BcryptHash(req.body.password.v, salt)

\* C14: a login with both fields is answered 200 with a token exactly when
\* the email is that of a registered user and the password the one given at
\* the registration, and 401 'Invalid credentials' otherwise.
C14_LoginExactly ==
  (/\ sent.req.route = "login"
   /\ Truthy(sent.req.body.email) /\ Truthy(sent.req.body.password)
   /\ ~Ran(sent.req, "storeError")) =>
    IF RightCredentials(sent.req)
    THEN sent.resp.status = 200 /\ sent.resp.body.token # <<>>
    ELSE sent.resp.status = 401 /\ sent.resp.body.token = <<>>

(***************************************************************************)
(* Task requests racing: two requests of one user may be between their     *)
(* awaits at once.                                                         *)
(***************************************************************************)
\* the inputs of the task race specification
RaceProfile ==
  [routes |-> {"list", "create", "get", "update", "delete"},
   headers |-> {},
   creates |-> {TaskBody(TitleB, Undef, Undef, Undef)},
   updates |-> {TaskBody(TitleA, Undef, Undef, Undef)},
   listParams |-> {EmptyReqBody},
   registers |-> Credentials({NameAl}, {EmailA}, {JStr(Secret1)}),
   logins |-> {},
   gateFails |-> {FALSE},
   taskFails |-> {FALSE},
   authFails |-> {FALSE}]

NextRace ==
  \/ \E s \in Slots : ArriveProtected(RaceProfile, s)
  \/ \E s \in Slots : GateLookup(RaceProfile, s)
  \/ \E s \in Slots : TaskStore(RaceProfile, s)
  \/ \E s \in Slots : ArriveRegister(RaceProfile, s)
  \/ \E s \in Slots : RegisterFind(RaceProfile, s)
  \/ \E s \in Slots : RegisterSave(RaceProfile, s)

SpecRace == InitRace /\ [][NextRace]_vars

\* the ids of the stored tasks
StoredIds(ts) == {x._id : x \in ts}

\* C15: for every task id at most one delete ever succeeds, and a delete of
\* an id that no stored task has (never created, or deleted before) is
\* answered 404 and changes nothing.
C15_DeleteOnce ==
  [][\A s \in Slots :
       (StoreStep(s) /\ slots[s].route = "delete") =>
         LET id == ParseOid(slots[s].id)
         IN  /\ sent'.resp.status = 200 => id \notin deleted /\ id \in deleted' /\ id \in StoredIds(tasks)
             /\ (id \notin StoredIds(tasks) /\ ~Ran(sent'.req, "storeError")) =>
                  sent'.resp = TaskNotFound /\ tasks' = tasks /\ deleted' = deleted]_vars

\* a delete of a task that an earlier delete had removed was answered 404
C15_Witness ==
  /\ sent.req.route = "delete"
  /\ sent.resp = TaskNotFound
  /\ ParseOid(sent.req.id) \in deleted

\* C16: a deleted task is gone for good: no stored task ever has the id of a
\* deleted one, a list never shows it, and get, update and delete of its id
\* are answered 404, whatever was in flight when it was deleted.
C16_DeletedStaysDeleted ==
  [][/\ StoredIds(tasks') \cap deleted' = {}
     /\ \A s \in Slots :
          (StoreStep(s) /\ ~Ran(sent'.req, "storeError")) =>
            /\ (slots[s].route \in {"get", "update", "delete"} /\ ParseOid(slots[s].id) \in deleted) =>
                 sent'.resp = TaskNotFound
            /\ slots[s].route = "list" =>
                 \A j \in Listed(sent'.resp) : ParseOid(j._id) \notin deleted']_vars

\* an update of a task that was deleted was answered 404 and the task is not stored
C16_Witness ==
  /\ sent.req.route = "update"
  /\ sent.resp = TaskNotFound
  /\ ParseOid(sent.req.id) \in deleted
  /\ ParseOid(sent.req.id) \notin StoredIds(tasks)

(***************************************************************************)
(* Task requests at the limits of validation.                              *)
(***************************************************************************)
Title40 == JStr(Repeat("t", MaxTitleLen))
Title41 == JStr(Repeat("t", MaxTitleLen + 1))
\* 39 characters between two spaces: 41 characters as sent, 39 trimmed
TitlePadded == JStr(<<" ">> \o Repeat("t", MaxTitleLen - 1) \o <<" ">>)
TitleBlank == JStr(<<" ", " ">>)
TitleEmpty == JStr(<<>>)
Desc501 == JStr(Repeat("d", MaxDescriptionLen + 1))
StringFalse == JStr(<<"f", "a", "l", "s", "e">>)

\* the inputs of the validation specification
ValidProfile ==
  [routes |-> {"create", "get", "update", "delete"},
   headers |-> {},
   creates |-> {TaskBody(Title40, Undef, Undef, Undef),
                TaskBody(Title41, Undef, Undef, Undef),
                TaskBody(TitlePadded, Undef, Undef, Undef),
                TaskBody(TitleA, DescD, Undef, Undef),
                TaskBody(TitleBlank, Undef, Undef, Undef),
                TaskBody(TitleEmpty, DescD, Undef, Undef),
                TaskBody(Undef, Undef, Undef, Undef),
                TaskBody(TitleB, Desc501, Undef, Undef)},
   updates |-> {TaskBody(Undef, Undef, Undef, Undef),
                TaskBody(TitleB, Undef, Undef, Undef),
                TaskBody(Undef, JStr(<<>>), Undef, Undef),
                TaskBody(Undef, Undef, JBool(TRUE), Undef),
                TaskBody(Undef, Undef, StringFalse, Undef),
                TaskBody(Title41, Undef, JBool(TRUE), Undef),
                TaskBody(TitleBlank, DescD, Undef, Undef),
                TaskBody(TitleA, Desc501, JBool(TRUE), Undef)},
   listParams |-> {},
   registers |-> Credentials({NameAl}, {EmailA}, {JStr(Secret1)}),
   logins |-> {},
   gateFails |-> {FALSE},
   taskFails |-> BOOLEAN,
   authFails |-> {FALSE}]

NextValid ==
  \/ \E s \in Slots : ArriveProtected(ValidProfile, s)
  \/ \E s \in Slots : GateLookup(ValidProfile, s)
  \/ \E s \in Slots : TaskStore(ValidProfile, s)
  \/ \E s \in Slots : ArriveRegister(ValidProfile, s)
  \/ \E s \in Slots : RegisterFind(ValidProfile, s)
  \/ \E s \in Slots : RegisterSave(ValidProfile, s)

SpecValid == Init /\ [][NextValid]_vars

\* the stored task with the id the request names
Named(ts, req) == {x \in ts : x._id = ParseOid(req.id)}

\* C17: a successful update sets exactly the fields among title, description
\* and completed that its body carries; a field left out keeps the value it
\* had, no other task changes, and completed is stored as a boolean.
C17_PartialUpdate ==
  [][/\ \A x \in tasks' : x.completed \in BOOLEAN
     /\ \A s \in Slots :
          (StoreStep(s) /\ slots[s].route = "update" /\ sent'.resp.status = 200) =>
            \E old \in Named(tasks, slots[s]), new \in Named(tasks', slots[s]) :
              LET body == slots[s].body
              IN  /\ tasks' \ {new} = tasks \ {old}
                  /\ new.title = IF body.title = Undef THEN old.title ELSE Trim(body.title.v)
                  /\ new.description = IF body.description = Undef THEN old.description
                                       ELSE Trim(body.description.v)
                  /\ new.completed = IF body.completed = Undef THEN old.completed
                                     ELSE Truthy(body.completed)
                  /\ new.userId = old.userId /\ new.createdAt = old.createdAt
                  /\ sent'.resp.body.task = <<TaskJSON(new)>>]_vars

\* an update carrying only a title succeeded on a completed task with a
\* description, and both were kept
C17_Witness ==
  /\ sent.req.route = "update"
  /\ sent.resp.status = 200
  /\ sent.req.body.title # Undef
  /\ sent.req.body.description = Undef /\ sent.req.body.completed = Undef
  /\ sent.resp.body.task[1].completed
  /\ sent.resp.body.task[1].description # <<>>

OutOfRange(req) ==
  LET title == req.body.title
      description == req.body.description
  IN  \/ /\ req.route = "create"
         /\ \/ title = Undef \/ Trim(title.v) = <<>> \/ Len(title.v) > MaxTitleLen
            \/ Len(description.v) > MaxDescriptionLen
      \/ /\ req.route = "update"
         /\ \/ title # Undef /\ (Trim(title.v) = <<>> \/ Len(title.v) > MaxTitleLen)
            \/ Len(description.v) > MaxDescriptionLen

\* C20: a create or update whose title or description is out of range is
\* answered 400 before any store call, and the task store is left as it was.
C20_RejectedWritesNothing ==
  [][/\ (sent'.req.route \in {"create", "update"} /\ Ran(sent'.req, "handler")
         /\ OutOfRange(sent'.req)) =>
          /\ sent'.resp.status = 400
          /\ ~Ran(sent'.req, "store")
          /\ tasks' = tasks
     /\ \A s \in Slots :
          (slots'[s].route \in {"create", "update"} /\ slots'[s].pc = "store") =>
            ~OutOfRange(slots'[s])]_vars

\* an update with a valid title and a description of 501 characters was
\* rejected while a task with the id it names is stored
C20_Witness ==
  /\ sent.req.route = "update"
  /\ sent.req.body.title = TitleA
  /\ sent.req.body.description = Desc501
  /\ sent.resp.status = 400
  /\ ObjectIdIsValid(sent.req.id)
  /\ Named(tasks, sent.req) # {}

(***************************************************************************)
(* A task read back.                                                       *)
(***************************************************************************)
\* the records of the tasks created that the get the last step answered names
\* and that were not written since
ReadBack(req) ==
  {c \in created : OidStr(c.id) = req.id /\ c.userId = req.userId /\ ~c.touched}

\* C21: a get by the creator of a task that was created and not updated or
\* deleted since is answered 200 with the id the create returned, the title
\* and the description of the create request, trimmed ('' when none was
\* given), and completed false.
C21_CreateThenGet ==
  (/\ sent.req.route = "get"
   /\ Ran(sent.req, "store")
   /\ ~Ran(sent.req, "storeError")) =>
    \A c \in ReadBack(sent.req) :
      /\ sent.resp.status = 200
      /\ sent.resp.body.task # <<>>
      /\ LET j == sent.resp.body.task[1]
         IN  /\ j._id = OidStr(c.id)
             /\ j.title = Trim(c.body.title.v)
             /\ j.description = (IF c.body.description = Undef THEN <<>> ELSE Trim(c.body.description.v))
             /\ j.completed = FALSE

\* a task created with a padded title and a description was read back
C21_Witness ==
  /\ sent.req.route = "get"
  /\ sent.resp.status = 200
  /\ \E c \in ReadBack(sent.req) :
       /\ c.body.title = TitleA
       /\ c.body.description = DescD
       /\ sent.resp.body.task[1].title = <<"a">>
       /\ sent.resp.body.task[1].description = <<"d">>
(***************************************************************************)
(* Tasks listed over time: creates, updates and lists of one user at the   *)
(* instants of the clock.                                                  *)
(***************************************************************************)
\* the inputs of the ordering specification
OrderProfile ==
  [routes |-> {"list", "create", "update"},
   headers |-> {},
   creates |-> {TaskBody(TitleB, Undef, Undef, Undef)},
   updates |-> {TaskBody(Undef, Undef, JBool(TRUE), Undef)},
   listParams |-> {EmptyReqBody},
   registers |-> Credentials({NameAl}, {EmailA}, {JStr(Secret1)}),
   logins |-> {},
   gateFails |-> {FALSE},
   taskFails |-> {FALSE},
   authFails |-> {FALSE}]

NextOrder ==
  \/ \E s \in Slots : ArriveProtected(OrderProfile, s)
  \/ \E s \in Slots : GateLookup(OrderProfile, s)
  \/ \E s \in Slots : TaskStore(OrderProfile, s)
  \/ \E s \in Slots : ArriveRegister(OrderProfile, s)
  \/ \E s \in Slots : RegisterFind(OrderProfile, s)
  \/ \E s \in Slots : RegisterSave(OrderProfile, s)
  \/ Tick

SpecOrder == Init /\ [][NextOrder]_vars

\* the orders, as sequences of ids, a list by the user of the request may show
IdOrders(req, ts) ==
  {[i \in 1..Len(f) |-> f[i]._id] : f \in taskOrders([req EXCEPT !.route = "list"], ts)}

\* C22: a list shows the tasks of the requester newest first by creation
\* time: of two tasks created at different times the later created comes
\* earlier; an update leaves the creation time of its task, and with it the
\* orders a list may show, as they were.
C22_NewestFirst ==
  [][\A s \in Slots :
       /\ (StoreStep(s) /\ slots[s].route = "list" /\ sent'.resp.status = 200) =>
            LET l == sent'.resp.body.tasks
            IN  /\ {ParseOid(l[i]._id) : i \in 1..Len(l)} = StoredIds(listFilter(tasks, slots[s]))
                /\ \A i, j \in 1..Len(l) : l[i].createdAt > l[j].createdAt => i < j
       /\ (StoreStep(s) /\ slots[s].route = "update" /\ sent'.resp.status = 200) =>
            /\ \A x \in tasks, y \in tasks' : x._id = y._id => x.createdAt = y.createdAt
            /\ IdOrders(slots[s], tasks') = IdOrders(slots[s], tasks)]_vars

\* a list showed the task created later first although the task created
\* earlier was updated after it
C22_Witness ==
  /\ sent.req.route = "list"
  /\ sent.resp.status = 200
  /\ Len(sent.resp.body.tasks) = 2
  /\ sent.resp.body.tasks[1].createdAt > sent.resp.body.tasks[2].createdAt
  /\ sent.resp.body.tasks[1].updatedAt < sent.resp.body.tasks[2].updatedAt
(***************************************************************************)
(* The shape of a task in a response.                                      *)
(***************************************************************************)
\* the task objects of a response: the one of create, get, update and delete,
\* and those of a list
TasksIn(resp) ==
  {resp.body.task[i] : i \in 1..Len(resp.body.task)}
    \cup {resp.body.tasks[i] : i \in 1..Len(resp.body.tasks)}

\* C23: no task in a response of create, list, get, update or delete has a
\* field naming its owner: its fields are the id, title, description,
\* completed, createdAt and updatedAt.
C23_NoOwnerField ==
  sent.req.route \in {"create", "list", "get", "update", "delete"} =>
    \A j \in TasksIn(sent.resp) :
      DOMAIN j = {"_id", "title", "description", "completed", "createdAt", "updatedAt"}
(***************************************************************************)
(* Logout on the server.                                                   *)
(***************************************************************************)
\* requireAuth lets a request with this Authorization header through
gateAccepts(h, us, t) ==
  LET a == requireAuthSync(NewRequest("me", h, <<>>, EmptyReqBody), t)
  IN  /\ a.resp.status = 0
      /\ requireAuthLookup(a.req, us, FALSE).resp.status = 0

\* the headers carrying a token generateToken can have made
TokenHeaders ==
  {HeaderOf(Bearer \o generateToken(n, i)) : n \in TokenUserIds, i \in AllInstants}

\* C24: POST /auth/logout changes no server state and revokes nothing: every
\* header the gate accepted before it is accepted after it, and at every
\* moment the token of a stored user is accepted from its issue until its
\* expiry.
C24_LogoutRevokesNothing ==
  [][/\ sent'.req.route = "logout" =>
          /\ UNCHANGED <<users, tasks, userIds, taskIds, clock, slots, deleted>>
          /\ sent'.resp = MessageResponse(200, "Logout successful")
          /\ \A h \in TokenHeaders : gateAccepts(h, users, now) => gateAccepts(h, users', now')
     /\ \A u \in users', i \in AllInstants :
          (i <= now' /\ now' < i + SevenDays) =>
            gateAccepts(HeaderOf(Bearer \o generateToken(u._id, i)), users', now')]_vars

\* a logout was answered, time having passed, while the token a stored user
\* got at the first instant is accepted
C24_Witness ==
  /\ sent.req.route = "logout"
  /\ clock > 1
  /\ \E u \in users :
       gateAccepts(HeaderOf(Bearer \o generateToken(u._id, Instants[1])), users, now)
(***************************************************************************)
(* Store failures in the task routes.                                      *)
(***************************************************************************)
\* the fixed texts the task handlers answer a caught error with
GenericFailures ==
  {"Failed to fetch tasks", "Failed to create task", "Failed to update task",
   "Failed to delete task", "Failed to fetch task"}

\* C25: a task route (list, debug, create, get, update, delete) whose store
\* operation fails answers 500 with nothing but a fixed, generic text, none
\* of it taken from the error, and leaves the task store as it was.
C25_StoreFailureIsGeneric ==
  [][\A s \in Slots :
       (StoreStep(s) /\ slots[s].route \in TaskRoutes /\ Ran(sent'.req, "storeError")) =>
         /\ sent'.resp.status = 500
         /\ \E m \in GenericFailures : sent'.resp = ErrorResponse(500, m)
         /\ tasks' = tasks]_vars
(***************************************************************************)
(* Updates racing: two users, and two requests between their awaits.       *)
(***************************************************************************)
TitleOnly == TaskBody(TitleA, Undef, Undef, Undef)
CompletedOnly == TaskBody(Undef, Undef, JBool(TRUE), Undef)

\* the inputs of the concurrent-update specification
ConcProfile ==
  [routes |-> {"create", "update"},
   headers |-> {},
   creates |-> {TaskBody(TitleB, DescD, Undef, Undef)},
   updates |-> {TitleOnly, CompletedOnly},
   listParams |-> {},
   registers |-> Credentials({NameAl}, {EmailA, EmailB}, {JStr(Secret1)}),
   logins |-> {},
   gateFails |-> {FALSE},
   taskFails |-> {FALSE},
   authFails |-> {FALSE}]

NextConc ==
  \/ \E s \in Slots : ArriveProtected(ConcProfile, s)
  \/ \E s \in Slots : GateLookup(ConcProfile, s)
  \/ \E s \in Slots : TaskStore(ConcProfile, s)
  \/ \E s \in Slots : ArriveRegister(ConcProfile, s)
  \/ \E s \in Slots : RegisterFind(ConcProfile, s)
  \/ \E s \in Slots : RegisterSave(ConcProfile, s)

SpecConc == InitRace /\ [][NextConc]_vars

\* the fields of a task that clients set
Content(x) == [title |-> x.title, description |-> x.description, completed |-> x.completed]

\* the two bodies set no field in common
Disjoint(a, b) ==
  \A f \in {"title", "description", "completed"} : a[f] = Undef \/ b[f] = Undef

\* the task store after the store operation of p and then that of q
Both(p, q, ts, t) == taskStoreOp(q, taskStoreOp(p, ts, t, <<>>, FALSE).tasks, t, <<>>, FALSE).tasks

\* C26: the outcome of concurrent task requests does not depend on their
\* order: of two updates of one task by its owner that set disjoint fields,
\* settled in either order, each field has the value its update gave it;
\* every update leaves the fields it does not name as the store holds them
\* when it settles; and a request changes no task of another user and is
\* answered from the tasks of its own user alone.
C26_OrderIndependent ==
  [][/\ \A p, q \in Slots :
          (/\ p # q
           /\ slots[p].pc = "store" /\ slots[q].pc = "store"
           /\ slots[p].route = "update" /\ slots[q].route = "update"
           /\ slots[p].id = slots[q].id /\ slots[p].userId = slots[q].userId
           /\ \E x \in Named(tasks, slots[p]) : x.userId = slots[p].userId
           /\ Disjoint(slots[p].body, slots[q].body)) =>
            LET pq == Named(Both(slots[p], slots[q], tasks, now), slots[p])
                qp == Named(Both(slots[q], slots[p], tasks, now), slots[p])
            IN  /\ {Content(x) : x \in pq} = {Content(x) : x \in qp}
                /\ pq # {}
                /\ \A x \in pq, r \in {p, q} :
                     /\ slots[r].body.title # Undef => x.title = Trim(slots[r].body.title.v)
                     /\ slots[r].body.completed # Undef =>
                          x.completed = Truthy(slots[r].body.completed)
     /\ \A s \in Slots :
          (StoreStep(s) /\ slots[s].route = "update" /\ sent'.resp.status = 200) =>
            \E old \in Named(tasks, slots[s]), new \in Named(tasks', slots[s]) :
              /\ slots[s].body.title = Undef => new.title = old.title
              /\ slots[s].body.description = Undef => new.description = old.description
              /\ slots[s].body.completed = Undef => new.completed = old.completed
              /\ slots[s].body.title # Undef => new.title = Trim(slots[s].body.title.v)
              /\ slots[s].body.completed # Undef => new.completed = Truthy(slots[s].body.completed)
     /\ \A s \in Slots :
          StoreStep(s) =>
            LET mine == FindTasksByUser(tasks, slots[s].userId)
                r == taskStoreOp(slots[s], mine, now, <<>>, FALSE)
            IN  /\ tasks' \ r.tasks = tasks \ mine
                /\ sent'.resp = r.resp]_vars

\* an update of the title alone was answered 200 while an update of the same
\* task setting completed alone awaits the store, and the other user has a task
C26_Witness ==
  /\ sent.req.route = "update"
  /\ sent.resp.status = 200
  /\ sent.req.body = TitleOnly
  /\ \E s \in Slots :
       /\ slots[s].pc = "store"
       /\ slots[s].route = "update"
       /\ slots[s].id = sent.req.id
       /\ slots[s].userId = sent.req.userId
       /\ slots[s].body = CompletedOnly
  /\ \E x \in tasks : x.userId # sent.req.userId
(***************************************************************************)
(* The server as the browser meets it: a request taken from requireAuth    *)
(* through its handler to the response.                                    *)
(***************************************************************************)
\* app.use('/tasks', requireAuth, routes) up to the store call of the handler
throughGate(req, us, n, t) ==
  LET a == requireAuthSync(req, t)
      b == requireAuthLookup(a.req, us, FALSE)
      h == taskHandlerSync(b.req)
  IN  IF a.resp.status # 0 THEN a
      ELSE IF b.resp.status # 0 THEN b
      ELSE IF h.status # 0 THEN [req |-> [b.req EXCEPT !.trace = @ \o <<"handler">>], resp |-> h]
      ELSE [req |-> [b.req EXCEPT !.trace = @ \o <<"handler">>, !.pc = "store",
                                  !.newId = IF b.req.route = "create" THEN TaskIdBase + n + 1 ELSE 0],
            resp |-> NoResponse]

\* POST /auth/register and POST /auth/login from arrival to response
authRoute(req, us, n, t, salt) ==
  IF req.route = "register"
  THEN LET v == registerValidate(req.body)
           f == registerFind(req, us, FALSE)
       IN  IF v.status # 0 THEN [users |-> us, resp |-> v]
           ELSE IF f.status # 0 THEN [users |-> us, resp |-> f]
           ELSE registerSave([req EXCEPT !.newId = n + 1], us, t, salt, FALSE)
  ELSE IF req.route = "login"
  THEN LET v == loginValidate(req.body)
       IN  [users |-> us, resp |-> IF v.status # 0 THEN v ELSE loginFind(req, us, t, FALSE)]
  ELSE [users |-> logoutStore(us), resp |-> logout]

(***************************************************************************)
(* client: services/api.js, hooks/useTasks.js, App.jsx, TaskForm.jsx       *)
(***************************************************************************)
\* requests one browser may have awaiting a response
MaxCalls == 2

NoRequest ==
  [fn |-> "none", header |-> NoHeader, id |-> <<>>, body |-> EmptyReqBody,
   phase |-> "none", resp |-> NoResponse, by |-> ""]

NoErrors == [title |-> "", description |-> "", submit |-> ""]

\* TaskForm as it mounts
EmptyForm == [title |-> <<>>, description |-> <<>>, loading |-> FALSE, errors |-> NoErrors]

\* the page as it stands once loaded without a token: checkAuth rejects, no user
Browser ==
  [token |-> <<>>, user |-> <<>>, tasks |-> <<>>,
   calls |-> [i \in 1..MaxCalls |-> NoRequest],
   form |-> EmptyForm, sync |-> "no", last |-> ""]

Calls == DOMAIN client.calls
PendingCalls(c) == {i \in DOMAIN c.calls : c.calls[i].fn # "none"}
FreeCalls(c) == {i \in DOMAIN c.calls : c.calls[i].fn = "none"}

\* the route of the server a function of api.js calls
RouteOf(fn) ==
  CASE fn = "fetch" -> "list"
    [] fn = "add" -> "create"
    [] fn = "modify" -> "update"
    [] fn = "remove" -> "delete"
    [] OTHER -> fn

\* the request interceptor of api: the token of localStorage, if any, as Bearer
Interceptor(token) == IF token # <<>> THEN HeaderOf(Bearer \o token) ELSE NoHeader

\* a function of api.js is called: the request leaves and its promise is awaited
Await(c, fn, id, body, by) ==
  LET i == CHOOSE k \in FreeCalls(c) : \A m \in FreeCalls(c) : k <= m
      header == IF fn \in {"fetch", "add", "modify", "remove"} THEN Interceptor(c.token) ELSE NoHeader
  IN  [c EXCEPT !.calls[i] = [fn |-> fn, header |-> header, id |-> id, body |-> body,
                              phase |-> "sent", resp |-> NoResponse, by |-> by]]

\* the promise of call i is settled and forgotten
Settle(c, i) == [c EXCEPT !.calls[i] = NoRequest]

\* whether the hook's list is known to stand for the store: "fetching" while a
\* fetch runs alone, "yes" once it has settled, "busy" while one add, modify
\* or remove runs alone after that, "no" otherwise
SyncOnStart(c, fn) ==
  IF PendingCalls(c) # {} THEN "no"
  ELSE IF fn = "fetch" THEN "fetching"
  ELSE IF fn \in {"add", "modify", "remove"} /\ c.sync = "yes" THEN "busy"
  ELSE "no"

SyncOnSettle(c, fn, ok) ==
  IF fn = "fetch" /\ c.sync = "fetching" /\ ok THEN "yes"
  ELSE IF fn \in {"add", "modify", "remove"} /\ c.sync = "busy" /\ ok THEN "yes"
  ELSE "no"

\* useTasks: the effect on [user] clears the list when there is no user
clearOnLogout(c) == IF c.user = <<>> THEN [c EXCEPT !.tasks = <<>>] ELSE c

\* useTasks: fetchTasks up to its await
fetchTasksStart(c) ==
  IF c.user = <<>> THEN [c EXCEPT !.tasks = <<>>]
  ELSE [Await(c, "fetch", <<>>, EmptyReqBody, "") EXCEPT !.sync = SyncOnStart(c, "fetch")]

\* useTasks: the effect on [user, fetchTasks] fetches when there is a user
fetchOnLogin(c) == IF c.user # <<>> THEN fetchTasksStart(c) ELSE c

\* App: setUser(u) and the effects of useTasks that depend on the user; the
\* page shows TaskForm only while there is a user, so the form is mounted anew
setUser(c, u) ==
  IF c.user = u THEN c
  ELSE LET d == [c EXCEPT !.user = u, !.form = EmptyForm, !.sync = "no",
                          !.calls = [i \in DOMAIN @ |-> [@[i] EXCEPT !.by = ""]]]
       IN  fetchOnLogin(clearOnLogout(d))

\* the response interceptor of api on 401: removeToken() and a reload of the page
Reload == Browser

\* setTasks(prev => prev.concat(data)): the created task put last
addTaskApplyLast(prev, data) == prev \o <<data>>

\* setTasks(prev => [data, ...prev])
addTaskApply(prev, data) == <<data>> \o prev

\* setTasks(prev => prev.map(task => task._id === id ? data : task))
modifyTaskApply(prev, id, data) == [i \in 1..Len(prev) |-> IF prev[i]._id = id THEN data ELSE prev[i]]

\* setTasks(prev => prev.filter(task => task._id !== id))
removeTaskApply(prev, id) == SelectSeq(prev, LAMBDA x : x._id # id)

\* useTasks: addTask, modifyTask, removeTask up to their awaits
hookStart(c, fn, id, body, by) ==
  IF c.user = <<>> THEN c
  ELSE [Await(c, fn, id, body, by) EXCEPT !.sync = SyncOnStart(c, fn)]

\* TaskForm: what follows await addTask(...) in handleSubmit
formSettled(c, q) ==
  IF q.by # "form" THEN c
  ELSE IF q.resp.status \in {200, 201}
  THEN [c EXCEPT !.form = EmptyForm]
  ELSE [c EXCEPT !.form.errors = [NoErrors EXCEPT !.submit = IF q.resp.body.error # ""
                                                              THEN q.resp.body.error
                                                              ELSE "Failed to create task"],
                 !.form.loading = FALSE]

\* the response of call i arrives: what follows the await in the caller
Resume(c, i) ==
  LET q == c.calls[i]
      ok == q.resp.status \in {200, 201}
      d == [Settle(c, i) EXCEPT !.sync = SyncOnSettle(c, q.fn, ok)]
  IN  CASE q.fn \in {"register", "login"} ->
             IF ok THEN setUser([d EXCEPT !.token = q.resp.body.token], q.resp.body.user)
             ELSE d
        [] q.fn = "logout" -> setUser(d, <<>>)
        [] q.fn \in {"fetch", "add", "modify", "remove"} /\ q.resp.status = 401 -> Reload
        [] q.fn = "fetch" /\ q.resp.status # 401 ->
             IF ok THEN [d EXCEPT !.tasks = q.resp.body.tasks] ELSE d
        [] q.fn = "add" /\ q.resp.status # 401 ->
             formSettled(IF ok THEN [d EXCEPT !.tasks = addTaskApply(@, q.resp.body.task[1])] ELSE d, q)
        [] q.fn = "modify" /\ q.resp.status # 401 ->
             IF ok THEN [d EXCEPT !.tasks = modifyTaskApply(@, q.id, q.resp.body.task[1])] ELSE d
        [] q.fn = "remove" /\ q.resp.status # 401 ->
             IF ok THEN [d EXCEPT !.tasks = removeTaskApply(@, q.id)] ELSE d

\* utils/validation: the patterns refused in titles and descriptions
IsWordChar(ch) ==
  ch \in {"a", "b", "c", "d", "e", "f", "g", "h", "i", "j", "k", "l", "m", "n", "o", "p", "q",
          "r", "s", "t", "u", "v", "w", "x", "y", "z", "A", "B", "_"} \/ IsNumStr(ch)
Includes(str, pat) ==
  \E i \in 1..Len(str) : i + Len(pat) - 1 <= Len(str) /\ SubSeq(str, i, i + Len(pat) - 1) = pat
Dangerous(str) ==
  LET low == ToLowerCase(str)
  IN  \/ Includes(low, <<"<", "s", "c", "r", "i", "p", "t">>)
      \/ Includes(low, <<"j", "a", "v", "a", "s", "c", "r", "i", "p", "t", ":">>)
      \/ \E i, j \in 1..Len(low) :
           /\ i + 2 < j /\ low[i] = "o" /\ low[i + 1] = "n" /\ low[j] = "="
           /\ \A k \in (i + 2)..(j - 1) : IsWordChar(low[k])

\* the shortest title the form accepts
MinTitleLen == 2

\* utils/validation: validateTaskTitle, "" for null
validateTaskTitle(title) ==
  IF Trim(title) = <<>> THEN "Task title is required"
  ELSE IF Len(Trim(title)) < MinTitleLen THEN "Task title must be at least 2 characters long"
  ELSE IF Len(title) > MaxTitleLen THEN "Task title cannot exceed 40 characters"
  ELSE IF Dangerous(title) THEN "Task title contains invalid characters"
  ELSE ""

\* a check of the description that does not look at its length
validateTaskDescriptionNoLimit(description) ==
  IF Trim(description) = <<>> THEN ""
  ELSE IF Dangerous(description) THEN "Task description contains invalid characters"
  ELSE ""

\* utils/validation: validateTaskDescription, "" for null
validateTaskDescription(description) ==
  IF Trim(description) = <<>> THEN ""
  ELSE IF Len(description) > MaxDescriptionLen THEN "Task description cannot exceed 500 characters"
  ELSE IF Dangerous(description) THEN "Task description contains invalid characters"
  ELSE ""

\* TaskForm: handleSubmit up to its await
handleSubmit(c) ==
  LET titleError == validateTaskTitle(c.form.title)
      descriptionError == validateTaskDescription(c.form.description)
      taskData == TaskBody(JStr(Trim(c.form.title)), JStr(Trim(c.form.description)), Undef, Undef)
  IN  IF titleError # "" \/ descriptionError # ""
      THEN [c EXCEPT !.form.errors = [NoErrors EXCEPT !.title = titleError,
                                                      !.description = descriptionError]]
      ELSE hookStart([c EXCEPT !.form.errors = NoErrors, !.form.loading = TRUE],
                     "add", <<>>, taskData, "form")

(***************************************************************************)
(* The browser and the server together.                                    *)
(***************************************************************************)
\* the inputs of the browser specification
ClientProfile ==
  [registers |-> Credentials({NameAl}, {EmailA, EmailB}, {JStr(Secret1)}),
   logins |-> Credentials({Undef}, {EmailA}, {JStr(Secret1)}),
   adds |-> {TaskBody(JStr(<<"a", "b">>), JStr(<<>>), Undef, Undef)},
   updates |-> {CompletedOnly},
   titles |-> {},
   descriptions |-> {},
   calls |-> MaxCalls]

InitClient ==
  /\ users = {}
  /\ tasks = {}
  /\ userIds = 0
  /\ taskIds = 0
  /\ clock = 1
  /\ slots = [s \in 1..MaxInFlight |-> Idle]
  /\ sent = NoSent
  /\ deleted = {}
  /\ created = {}
  /\ boot = Listening
  /\ client = Browser
  /\ call = NoCall

\* a step of the page alone
InBrowser(c) ==
  /\ client' = c
  /\ sent' = NoSent
  /\ UNCHANGED <<boot, created, deleted, users, tasks, userIds, taskIds, clock, slots, call>>

AuthPending(c) == \E i \in PendingCalls(c) : c.calls[i].fn \in {"register", "login"}
AddsOnTheWay(c) == Cardinality({i \in PendingCalls(c) : c.calls[i].fn = "add" /\ c.calls[i].phase = "sent"})

\* the page may have another request awaiting its response
Room(P) == Cardinality(PendingCalls(client)) < P.calls

\* App: handleRegister up to its await
StartRegister(P) ==
  /\ client.user = <<>>
  /\ ~AuthPending(client)
  /\ Room(P)
  /\ userIds < MaxUsers
  /\ \E body \in P.registers :
       InBrowser([Await(client, "register", <<>>, body, "") EXCEPT !.sync = "no", !.last = ""])

\* App: handleLogin up to its await
StartLogin(P) ==
  /\ client.user = <<>>
  /\ ~AuthPending(client)
  /\ Room(P)
  /\ \E body \in P.logins :
       InBrowser([Await(client, "login", <<>>, body, "") EXCEPT !.sync = "no", !.last = ""])

\* App: handleLogout up to its await; api.logout removes the token first
StartLogout(P) ==
  /\ client.user # <<>>
  /\ Room(P)
  /\ InBrowser([Await([client EXCEPT !.token = <<>>], "logout", <<>>, EmptyReqBody, "")
                  EXCEPT !.sync = "no", !.last = ""])

\* useTasks: fetchTasks called by a component
Refresh(P) ==
  /\ client.user # <<>>
  /\ Room(P)
  /\ InBrowser([fetchTasksStart(client) EXCEPT !.last = ""])

\* useTasks: addTask called with task data
AddTask(P) ==
  /\ client.user # <<>>
  /\ Room(P)
  /\ taskIds + AddsOnTheWay(client) < MaxTasks
  /\ \E body \in P.adds : InBrowser([hookStart(client, "add", <<>>, body, "") EXCEPT !.last = ""])

\* useTasks: modifyTask called for a task of the list
ModifyTask(P) ==
  /\ client.user # <<>>
  /\ Room(P)
  /\ \E k \in 1..Len(client.tasks), body \in P.updates :
       InBrowser([hookStart(client, "modify", client.tasks[k]._id, body, "") EXCEPT !.last = ""])

\* useTasks: removeTask called for a task of the list
RemoveTask(P) ==
  /\ client.user # <<>>
  /\ Room(P)
  /\ \E k \in 1..Len(client.tasks) :
       InBrowser([hookStart(client, "remove", client.tasks[k]._id, EmptyReqBody, "") EXCEPT !.last = ""])

\* the server handles a request of the browser to an auth route
ServeAuth(i) ==
  /\ client.calls[i].phase = "sent"
  /\ client.calls[i].fn \in {"register", "login", "logout"}
  /\ \E salt \in Salts :
       LET q == client.calls[i]
           req == NewRequest(RouteOf(q.fn), q.header, q.id, q.body)
           r == authRoute(req, users, userIds, now, salt)
           built == /\ q.fn = "register"
                    /\ registerValidate(q.body).status = 0
                    /\ registerFind(req, users, FALSE).status = 0
       IN  /\ users' = r.users
           /\ userIds' = IF built THEN userIds + 1 ELSE userIds
           /\ client' = [client EXCEPT !.calls[i].phase = "served", !.calls[i].resp = r.resp,
                                       !.last = ""]
           /\ Answer(req, r.resp)
  /\ UNCHANGED <<boot, created, deleted, tasks, taskIds, clock, slots>>

\* the server handles a request of the browser to a task route
ServeTask(i) ==
  /\ client.calls[i].phase = "sent"
  /\ client.calls[i].fn \in {"fetch", "add", "modify", "remove"}
  /\ LET q == client.calls[i]
         g == throughGate(NewRequest(RouteOf(q.fn), q.header, q.id, q.body), users, taskIds, now)
     IN  IF g.resp.status # 0
         THEN /\ client' = [client EXCEPT !.calls[i].phase = "served", !.calls[i].resp = g.resp,
                                          !.last = ""]
              /\ Answer(g.req, g.resp)
              /\ UNCHANGED <<tasks, taskIds, deleted, created>>
         ELSE \E order \in taskOrders(g.req, tasks) :
                LET r == taskStoreOp(g.req, tasks, now, order, FALSE)
                IN  /\ tasks' = r.tasks
                    /\ taskIds' = IF g.req.route = "create" THEN taskIds + 1 ELSE taskIds
                    /\ deleted' = deleted \cup ({x._id : x \in tasks} \ {x._id : x \in r.tasks})
                    /\ created' = recordCreated(created, g.req, tasks, r)
                    /\ client' = [client EXCEPT !.calls[i].phase = "served",
                                                !.calls[i].resp = r.resp, !.last = ""]
                    /\ Answer([g.req EXCEPT !.trace = @ \o StoreTrace(FALSE)], r.resp)
  /\ UNCHANGED <<boot, users, userIds, clock, slots>>

\* a response reaches the browser and the code awaiting it goes on
Deliver(i) ==
  /\ client.calls[i].phase = "served"
  /\ InBrowser([Resume(client, i) EXCEPT !.last = ""])

\* TaskForm: the title is typed
TypeTitle(P) ==
  /\ client.user # <<>>
  /\ ~client.form.loading
  /\ \E t \in P.titles : InBrowser([client EXCEPT !.form.title = t, !.last = ""])

\* TaskForm: the description is typed
TypeDescription(P) ==
  /\ client.user # <<>>
  /\ ~client.form.loading
  /\ \E d \in P.descriptions : InBrowser([client EXCEPT !.form.description = d, !.last = ""])

\* TaskForm: the form is submitted through its button, which is disabled
\* while loading or while the title is blank
Submit(P) ==
  /\ client.user # <<>>
  /\ ~client.form.loading
  /\ Trim(client.form.title) # <<>>
  /\ Room(P)
  /\ taskIds + AddsOnTheWay(client) < MaxTasks
  /\ InBrowser([handleSubmit(client) EXCEPT !.last = "submit"])

\* logins and logouts of two users while requests are awaited
NextClient ==
  \/ StartRegister(ClientProfile)
  \/ StartLogin(ClientProfile)
  \/ StartLogout(ClientProfile)
  \/ Refresh(ClientProfile)
  \/ AddTask(ClientProfile)
  \/ \E i \in Calls : ServeAuth(i)
  \/ \E i \in Calls : ServeTask(i)
  \/ \E i \in Calls : Deliver(i)

SpecClient == InitClient /\ [][NextClient]_vars

\* C27: in useTasks the list is empty whenever no user is logged in, and
\* every task in it belongs to the user logged in, in every interleaving of
\* logouts, logins and the responses awaited.
C27_NoUserNoTasks ==
  /\ client.user = <<>> => client.tasks = <<>>
  /\ \A k \in 1..Len(client.tasks) :
       client.user # <<>> => client.tasks[k].userId = client.user[1]._id

\* the inputs of the specification of one user's page over time
SyncProfile ==
  [registers |-> Credentials({NameAl}, {EmailA}, {JStr(Secret1)}),
   logins |-> Credentials({Undef}, {EmailA}, {JStr(Secret1)}),
   adds |-> {TaskBody(JStr(<<"a", "b">>), JStr(<<>>), Undef, Undef)},
   updates |-> {CompletedOnly},
   titles |-> {},
   descriptions |-> {},
   calls |-> 1]

\* one user at the page, calling the functions of the hook as time passes
NextSync ==
  \/ StartRegister(SyncProfile)
  \/ Refresh(SyncProfile)
  \/ AddTask(SyncProfile)
  \/ ModifyTask(SyncProfile)
  \/ RemoveTask(SyncProfile)
  \/ \E i \in Calls : ServeAuth(i)
  \/ \E i \in Calls : ServeTask(i)
  \/ \E i \in Calls : Deliver(i)
  \/ Tick

SpecSync == InitClient /\ [][NextSync]_vars

\* the lists GET /tasks may answer the user of the page with
ServerLists ==
  {ToJSONList(f) :
     f \in SortedByCreatedAtDesc(FindTasksByUser(tasks, ParseOid(client.user[1]._id)))}

\* C30: once a fetchTasks has settled, and while addTask, modifyTask and
\* removeTask are called one at a time and succeed, the list of the hook is,
\* in content and in order, a list GET /tasks would answer that user with at
\* that moment.
C30_ListMirrorsServer ==
  (client.sync = "yes" /\ client.user # <<>>) => client.tasks \in ServerLists

\* the list mirrors the server with two tasks created at different times, the
\* older of them modified no earlier than the newer was added
C30_Witness ==
  /\ client.sync = "yes"
  /\ Len(client.tasks) = 2
  /\ client.tasks[1].createdAt > client.tasks[2].createdAt
  /\ client.tasks[2].updatedAt >= client.tasks[1].createdAt
  /\ client.tasks[2].completed

(***************************************************************************)
(* TaskForm in the page of a logged-in user.                               *)
(***************************************************************************)
\* the inputs of the form specification: what is typed into the two fields
FormProfile ==
  [registers |-> Credentials({NameAl}, {EmailA}, {JStr(Secret1)}),
   logins |-> {},
   adds |-> {},
   updates |-> {},
   titles |-> {<<" ">>, <<"a">>, <<" ", "a", "b", " ">>, Repeat("t", MaxTitleLen),
               Repeat("t", MaxTitleLen + 1), <<"<", "s", "c", "r", "i", "p", "t">>},
   descriptions |-> {<<>>, <<" ", "d", " ">>, Repeat("d", MaxDescriptionLen + 1),
                     Repeat(" ", MaxDescriptionLen + 1), <<"o", "n", "x", "=">>},
   calls |-> MaxCalls]

NextForm ==
  \/ StartRegister(FormProfile)
  \/ TypeTitle(FormProfile)
  \/ TypeDescription(FormProfile)
  \/ Submit(FormProfile)
  \/ \E i \in Calls : ServeAuth(i)
  \/ \E i \in Calls : ServeTask(i)
  \/ \E i \in Calls : Deliver(i)

SpecForm == InitClient /\ [][NextForm]_vars

\* the calls of addTask the form has made that have not settled
FormAdds(c) == {i \in PendingCalls(c) : c.calls[i].fn = "add" /\ c.calls[i].by = "form"}

\* C29: TaskForm calls addTask only with the trimmed title and description of
\* a form whose title is not blank and at most 40 characters and whose
\* description, trimmed, is at most 500; a submission that fails validation
\* shows an error and calls nothing; and the form starts no addTask while
\* one it started has not settled.
C29_FormGuardsAddTask ==
  [][/\ \A i \in FormAdds(client') \ FormAdds(client) :
          LET f == client.form
              data == client'.calls[i].body
          IN  /\ Trim(f.title) # <<>> /\ Len(f.title) <= MaxTitleLen
              /\ data.title = JStr(Trim(f.title))
              /\ data.description = JStr(Trim(f.description))
              /\ Len(data.description.v) <= MaxDescriptionLen
              /\ ~f.loading /\ FormAdds(client) = {}
              /\ client'.form.loading
     /\ (/\ client'.last = "submit"
         /\ \/ validateTaskTitle(client.form.title) # ""
            \/ validateTaskDescription(client.form.description) # "") =>
          /\ client'.calls = client.calls
          /\ client'.form.errors.title # "" \/ client'.form.errors.description # ""
          /\ tasks' = tasks
     /\ Cardinality(FormAdds(client')) <= 1
     /\ client'.form.loading <=> FormAdds(client') # {}]_vars

\* the form, holding a padded title and a padded description, was submitted
\* and awaits addTask, called with both trimmed
C29_Witness ==
  /\ client.last = "submit"
  /\ client.form.loading
  /\ client.form.title = <<" ", "a", "b", " ">>
  /\ client.form.description = <<" ", "d", " ">>
  /\ \E i \in FormAdds(client) :
       /\ client.calls[i].body.title = JStr(<<"a", "b">>)
       /\ client.calls[i].body.description = JStr(<<"d">>)

(***************************************************************************)
(* Start of the server over a database of an earlier version, whose tasks  *)
(* have no userId, and scripts/migrate-tasks.js run by run-migration.js.   *)
(***************************************************************************)
\* { userId: { $exists: false } }; a userId that is not there is 0
Unowned(ts) == {x \in ts : x.userId = 0}

\* a user registered before the server is started
LegacyUser ==
  [NewUserDoc([Idle EXCEPT !.newId = 1,
                           !.body = [EmptyReqBody EXCEPT !.name = NameAl, !.email = EmailA,
                                                         !.password = JStr(Secret1)]],
              Instants[1])
     EXCEPT !.password = BcryptHash(@, "s")]

\* a task stored before the server is started, with an owner or (0) without
LegacyTask(n, owner) ==
  [_id |-> TaskIdBase + n, title |-> <<"o", "l", "d">>, description |-> <<>>,
   completed |-> FALSE, userId |-> owner, createdAt |-> Instants[1], updatedAt |-> Instants[1]]

\* new User({ name: 'Default User', ... }) of the migration
DefaultUserBody ==
  [EmptyReqBody EXCEPT
     !.name = JStr(<<"D", "e", "f", "a", "u", "l", "t", " ", "U", "s", "e", "r">>),
     !.email = JStr(<<"d", "e", "f", "a", "u", "l", "t", "@", "e", "x", "a", "m", "p", "l", "e",
                      ".", "c", "o", "m">>),
     !.password = JStr(<<"d", "e", "f", "a", "u", "l", "t", "p", "a", "s", "s", "1", "2", "3">>)]

\* Task.updateMany({ userId: { $exists: false } }, { $set: { userId } })
updateManyUserId(ts, uid, t) ==
  {IF x \in Unowned(ts) THEN [x EXCEPT !.userId = uid, !.updatedAt = t] ELSE x : x \in ts}

\* the database the server is started over: one task without a userId, a
\* second one with or without, and the user owning it when it has one
InitBoot ==
  /\ \E us \in {{}, {LegacyUser}} :
       /\ users = us
       /\ userIds = Cardinality(us)
       /\ \E owner \in {0} \cup {u._id : u \in us} :
            tasks = {LegacyTask(1, 0), LegacyTask(2, owner)}
  /\ taskIds = MaxTasks
  /\ clock = 1
  /\ slots = [s \in 1..MaxInFlight |-> Idle]
  /\ sent = NoSent
  /\ deleted = {}
  /\ created = {}
  /\ boot = [Listening EXCEPT !.server = "starting"]
  /\ client = NoClient
  /\ call = NoCall

\* server.js runs: connectDB(), the middleware and routes, app.listen
StartServer ==
  /\ boot.server = "starting"
  /\ boot' = [boot EXCEPT !.server = "listening"]
  /\ sent' = NoSent
  /\ UNCHANGED <<client, created, deleted, users, tasks, userIds, taskIds, clock, slots, call>>

\* a step of the migration script, which leaves the server's requests alone
InScript(b) ==
  /\ boot' = b
  /\ sent' = NoSent
  /\ UNCHANGED <<client, created, deleted, taskIds, clock, slots, call>>

\* node scripts/run-migration.js: connects and calls migrateExistingTasks
RunMigration ==
  /\ boot.script = "idle"
  /\ InScript([boot EXCEPT !.script = "find"])
  /\ UNCHANGED <<users, tasks, userIds>>

\* migrateExistingTasks: Task.find settles
MigrateFind ==
  /\ boot.script = "find"
  /\ InScript([boot EXCEPT !.script = IF Unowned(tasks) = {} THEN "exit" ELSE "findOne"])
  /\ UNCHANGED <<users, tasks, userIds>>

\* migrateExistingTasks: User.findOne settles with a user or with none
MigrateFindOne ==
  /\ boot.script = "findOne"
  /\ IF users = {}
     THEN InScript([boot EXCEPT !.script = "save"])
     ELSE \E u \in users : InScript([boot EXCEPT !.script = "update", !.defaultUser = u._id])
  /\ UNCHANGED <<users, tasks, userIds>>

\* migrateExistingTasks: defaultUser.save() settles
MigrateSave ==
  /\ boot.script = "save"
  /\ \E salt \in Salts :
       LET id == userIds + 1
           r == registerSave([Idle EXCEPT !.newId = id, !.body = DefaultUserBody],
                             users, now, salt, FALSE)
       IN  /\ users' = r.users
           /\ userIds' = id
           /\ IF r.users = users
              THEN InScript([boot EXCEPT !.script = "exit"])
              ELSE InScript([boot EXCEPT !.script = "update", !.defaultUser = id])
  /\ UNCHANGED tasks

\* migrateExistingTasks: Task.updateMany settles
MigrateUpdateMany ==
  /\ boot.script = "update"
  /\ tasks' = updateManyUserId(tasks, boot.defaultUser, now)
  /\ InScript([boot EXCEPT !.script = "exit"])
  /\ UNCHANGED <<users, userIds>>

\* run-migration.js: disconnects and exits
MigrateExit ==
  /\ boot.script = "exit"
  /\ InScript([boot EXCEPT !.script = "done"])
  /\ UNCHANGED <<users, tasks, userIds>>

\* the inputs of the start-up specification
BootProfile ==
  [routes |-> {"list", "get"},
   headers |-> {NoHeader},
   creates |-> {},
   updates |-> {},
   listParams |-> {EmptyReqBody},
   registers |-> Credentials({NameAl}, {EmailB}, {JStr(Secret1)}),
   logins |-> {},
   gateFails |-> {FALSE},
   taskFails |-> {FALSE},
   authFails |-> {FALSE}]

\* the server starts and serves; the migration runs when someone runs it
NextBoot ==
  \/ StartServer
  \/ RunMigration
  \/ MigrateFind
  \/ MigrateFindOne
  \/ MigrateSave
  \/ MigrateUpdateMany
  \/ MigrateExit
  \/ \E s \in Slots : boot.server = "listening" /\ ArriveProtected(BootProfile, s)
  \/ \E s \in Slots : GateLookup(BootProfile, s)
  \/ \E s \in Slots : TaskStore(BootProfile, s)
  \/ \E s \in Slots : boot.server = "listening" /\ ArriveRegister(BootProfile, s)
  \/ \E s \in Slots : RegisterFind(BootProfile, s)
  \/ \E s \in Slots : RegisterSave(BootProfile, s)
  \/ Tick

SpecBoot == InitBoot /\ [][NextBoot]_vars

\* C28: once the server has taken a request, no stored task is without a
\* userId: the migration has run before the first request is handled.
C28_MigratedBeforeFirstRequest ==
  (\E s \in Slots : slots[s] # Idle) \/ sent # NoSent => Unowned(tasks) = {}
====
